---- MODULE Spec2Model ----
(***************************************************************************)
(* A model of the crawl-and-ingest engine of genckulinxha/frwd:             *)
(*   - the retrying HTTP transport (pipeline/base.py, eu_pipeline/base.py), *)
(*   - the pagination walker (pipeline/discovery/discover_laws.py),         *)
(*   - the upsert store (discover_laws.py, eu_pipeline/discovery.py,        *)
(*     pipeline/relations/backfill_relations.py, models.py).                *)
(* Each component has its own specification (SpecRetry, SpecWalk,           *)
(* SpecUpsert, SpecStore); the variables of the other components stay at    *)
(* their initial values.                                                    *)
(***************************************************************************)
EXTENDS Integers, Sequences, FiniteSets, TLC

(***************************************************************************)
(* Bounds of the model.                                                     *)
(***************************************************************************)
\* RetryConfig.max_retries is drawn from 1..MaxRetriesBound
MaxRetriesBound == 4
\* time.sleep(d) returns after d + e time units, e in 0..MaxOversleep
MaxOversleep == 1
\* act_ids that listing pages carry: 1..WalkMaxActId
WalkMaxActId == 2
\* a listing page carries at most MaxPerPage item links
MaxPerPage == 1
\* max_pages of _fetch_category_links, scaled down from the 200 of
\* discover_laws.py:72 so that the ceiling is reached
MaxPages == 3
\* act_ids that discovery links and relation boxes carry: 1..StoreMaxActId
StoreMaxActId == 2
\* a batch handed to _store_link_batch / a page handed to _store_links
\* carries at most MaxBatch links
MaxBatch == 2
\* datetime.utcnow() takes the values 1..MaxClock
MaxClock == 2
\* a detail page carries at most MaxBoxes relation boxes
MaxBoxes == 2
\* and at most MaxRaceBoxes where two discovery workers run beside the
\* backfill (SpecStore)
MaxRaceBoxes == 1
\* the laws a detail run finds in the store
MaxDetailLaws == 2
\* the items of a run, the workers of its thread pool and the commit
\* frequencies below the configured one
MaxItems == 3
MaxWorkers == 2
MaxCommitFrequency == 2
MaxEuPage == 3
MaxActIdText == 2
MaxLabelLen == 4
MaxSwitchPosts == 2
MaxThreads == 2

(***************************************************************************)
(* Program constants.                                                       *)
(***************************************************************************)
\* pipeline/config.py: RetryConfig defaults
DefaultMaxRetries == 3
BaseDelay == 1
MaxDelay == 60
MinHtmlChars == 500
ExponentialBase == 2
\* eu_pipeline/config.py: backoff_factor = 1.5 = BackoffNum / BackoffDen
BackoffNum == 3
BackoffDen == 2
\* discover_laws.py: "if consecutive_empty_pages >= 3"
EmptyPageThreshold == 3
\* PipelineConfig.max_workers and BatchConfig.commit_frequency
ConfigMaxWorkers == 4
ConfigCommitFrequency == 10

VARIABLES
    \* ---- RetryingTransport: one HttpClient and the call in progress
    impl,              \* the pipeline that runs: "gzk" (pipeline/) or "eu" (eu_pipeline/)
    max_retries,       \* RetryConfig.max_retries
    english_switched,  \* HttpClient._english_switched (gzk only)
    req,               \* the call in progress: [method, gzk_url]
    rpc,               \* "idle" | "func" | "sleep" | "returned" | "raised"
    fpc,               \* position inside func: "request" | "switch" | "fresh"
    attempt,           \* loop variable of retry_with_backoff
    delay,             \* delay to sleep next, in 1/Scale seconds
    last_exception,    \* the exception kept by retry_with_backoff
    slept,             \* total time spent in time.sleep, in 1/Scale seconds
    history,           \* outcome of every invocation of func so far
    lang,              \* the language the server keeps for the client's session,
                       \* the language of the pages it has sent, and the
                       \* requests the client has issued: the language POSTs
                       \* so far and the GETs of the invocation of _get
    \* ---- PaginationWalker: one call of process_single_item(category)
    wpc,               \* "init" | "loop" (about to POST) | "done" | "raised"
    soup,              \* the current page: [links, next]
    all_links,         \* all_links
    page_count,        \* page_count
    consecutive_empty_pages,
    final_links,       \* what _fetch_category_links returned
    item,              \* what process_single_item returned
    received,          \* history: number of pages received
    served_ids,        \* history: act_ids of the links of the pages received
    stop,              \* history: why the walk ended
    failed,            \* history: a next-page request or parse failed
    posts,             \* history: the form data of every next-page POST issued
    \* ---- UpsertStore: the committed tables and the sessions writing them
    laws,              \* committed rows of table laws
    relations,         \* committed rows of table law_relations
    eu_laws,           \* committed rows of table eu_laws
    clock,             \* the last value datetime.utcnow() returned
    ds,                \* the sessions running _store_link_batch
    rs,                \* the session running backfill_relations
    es,                \* the session running EUDiscoveryProcessor._store_links
    \* ---- BasePipelineProcessor.run() of the discovery processor
    run,               \* [pc, stats]: position of run() and self.stats
    \* ---- the detail processors (DetailProcessor, EUDetailProcessor)
    docs,              \* the committed detail columns of the stored laws
    dt,                \* the detail run: its position and the session's law
    \* ---- BasePipelineProcessor.run() over a list of items, and its batch
    \* processor (BatchProcessor or ThreadedBatchProcessor)
    bt,                \* the configuration, the items and the main thread of run()
    ch,                \* the chunks: per chunk its thread, session and chunk_stats
    \* ---- EUDiscoveryProcessor.process_single_item: the walk of one listing
    ew,                \* [pc, page, requests]
    \* ---- OCRManager: the class, its instance and the threads that use it
    ocr,               \* the class attribute _instance and the instance's fields
    th,                \* per thread: its position in OCRManager() and get_reader()
    \* ---- the functions that read an href or a label
    arg,               \* the argument of the call
    ret                \* what the call returned

retryVars == <<impl, max_retries, english_switched, req, rpc, fpc, attempt,
               delay, last_exception, slept, history, lang>>

walkVars == <<wpc, soup, all_links, page_count, consecutive_empty_pages,
              final_links, item, received, served_ids, stop, failed, posts>>

storeVars == <<laws, relations, eu_laws, clock, ds, rs, es>>

runVars == <<run>>

detailVars == <<docs, dt>>

batchVars == <<bt, ch>>

euWalkVars == <<ew>>

ocrVars == <<ocr, th>>

pureVars == <<arg, ret>>

otherVars == <<euWalkVars, ocrVars, pureVars>>

vars == <<retryVars, walkVars, storeVars, runVars, detailVars, batchVars,
          otherVars>>

\* What the actions of one component leave alone
restOfRetry == <<walkVars, storeVars, runVars, detailVars, batchVars, otherVars>>
restOfWalk == <<retryVars, storeVars, runVars, detailVars, batchVars, otherVars>>
restOfStore == <<retryVars, walkVars, runVars, detailVars, batchVars, otherVars>>
restOfRun == <<retryVars, walkVars, storeVars, detailVars, batchVars, otherVars>>
restOfDetail == <<retryVars, walkVars, storeVars, runVars, batchVars, otherVars>>
restOfBatch == <<retryVars, walkVars, storeVars, runVars, detailVars, otherVars>>
coreVars == <<retryVars, walkVars, runVars, detailVars, batchVars>>
restOfEuWalk == <<coreVars, storeVars, ocrVars, pureVars>>
restOfOcr == <<coreVars, storeVars, euWalkVars, pureVars>>
restOfPure == <<coreVars, storeVars, euWalkVars, ocrVars>>

(***************************************************************************)
(* RetryingTransport                                                        *)
(***************************************************************************)
\* One second, in time units: every delay the two managers compute for
\* max_retries <= MaxRetriesBound is a whole number of units.
Scale == BackoffDen ^ MaxRetriesBound

NoException == [type |-> "none", status |-> 0]

\* What one HTTP request can do: raise Timeout or ConnectionError, or
\* return a response with a status code.
Outcomes ==
    { [type |-> "Timeout", status |-> 0],
      [type |-> "ConnectionError", status |-> 0] } \cup
    { [type |-> "Response", status |-> s] : s \in {200, 404, 500} }

\* requests.Response.raise_for_status: HTTPError for 4xx and 5xx
RaiseForStatus(o) == o.type = "Response" /\ o.status >= 400 /\ o.status < 600

\* The exception one HTTP request followed by raise_for_status raises,
\* NoException when it returns.
ExceptionOf(o) ==
    IF o.type \in {"Timeout", "ConnectionError"} THEN o
    ELSE IF RaiseForStatus(o) THEN [type |-> "HTTPError", status |-> o.status]
    ELSE NoException

\* gzk: "except Exception"; eu: "except (RequestException, Timeout,
\* ConnectionError)", and HTTPError is a RequestException.
GzkCaught(e) == e.type \in {"Timeout", "ConnectionError", "HTTPError"}
EuCaught(e) == e.type \in {"Timeout", "ConnectionError", "HTTPError"}
Caught(e) == IF impl = "gzk" THEN GzkCaught(e) ELSE EuCaught(e)

\* A slip in the delay formula: "*" written for "**"
GzkDelayLinear(a) ==
    LET d == BaseDelay * (ExponentialBase * a)
    IN  Scale * (IF d < MaxDelay THEN d ELSE MaxDelay)

\* gzk: delay = min(base_delay * exponential_base ** attempt, max_delay)
GzkDelay(a) ==
    LET d == BaseDelay * (ExponentialBase ^ a)
    IN  Scale * (IF d < MaxDelay THEN d ELSE MaxDelay)

\* eu: delay = backoff_factor at first, delay *= backoff_factor after a sleep
EuInitialDelay == (Scale * BackoffNum) \div BackoffDen
EuNextDelay(d) == (d * BackoffNum) \div BackoffDen

\* gzk: "if attempt < max_retries - 1" sleeps before the next iteration
GzkSleeps(a) == a < max_retries - 1
\* gzk: "for attempt in range(max_retries)" has a next iteration
GzkInRange(a) == a < max_retries
\* eu: attempt was incremented; "if attempt >= max_retries: break"
EuBreaks(a) == a >= max_retries
\* eu: "while attempt < max_retries"
EuInLoop(a) == a < max_retries

\* The languages of gzk.rks-gov.net that matter here: the page shows
\* "English" in a.lang_main_active or it does not.
English == "en"
Albanian == "sq"

\* The server keeps the selected language per session: a page is served in
\* the language the session has at the time of the request.
PageLanguage == lang.server

\* HttpClient.get / HttpClient.post: a new call on the client
HttpCall ==
    /\ rpc \in {"idle", "returned", "raised"}
    /\ \E m \in {"get", "post"}, g \in BOOLEAN :
          req' = [method |-> m, gzk_url |-> g]
    /\ rpc' = "func"
    /\ fpc' = "request"
    /\ attempt' = 0
    /\ delay' = IF impl = "eu" THEN EuInitialDelay ELSE 0
    /\ last_exception' = NoException
    /\ slept' = 0
    /\ history' = <<>>
    /\ lang' = [lang EXCEPT !.pending = "none", !.response = "none",
                            !.gets = 0]
    /\ UNCHANGED <<impl, max_retries, english_switched>>
    /\ UNCHANGED restOfRetry

\* func returned a response: retry_with_backoff returns it
FuncReturns ==
    /\ rpc' = "returned"
    /\ fpc' = "request"
    /\ history' = Append(history, NoException)
    /\ UNCHANGED <<attempt, delay, last_exception, slept>>

\* func raised e: the except branch of retry_with_backoff. An exception
\* that is not caught leaves retry_with_backoff at once; after the last
\* iteration last_exception is raised.
FuncRaises(e) ==
    /\ history' = Append(history, e)
    /\ fpc' = "request"
    /\ slept' = slept
    /\ last_exception' = e
    /\ IF ~Caught(e)
       THEN rpc' = "raised" /\ UNCHANGED <<attempt, delay>>
       ELSE IF impl = "gzk"
       THEN IF GzkSleeps(attempt)
            THEN rpc' = "sleep" /\ delay' = GzkDelay(attempt) /\ attempt' = attempt
            ELSE /\ delay' = delay
                 /\ IF GzkInRange(attempt + 1)
                    THEN rpc' = "func" /\ attempt' = attempt + 1
                    ELSE rpc' = "raised" /\ attempt' = attempt
       ELSE /\ attempt' = attempt + 1
            /\ delay' = delay
            /\ rpc' = IF EuBreaks(attempt + 1) THEN "raised" ELSE "sleep"

\* the GETs that the first request of func issues: one for _get, none for
\* _post
Issued(r) == IF r.method = "get" THEN 1 ELSE 0

\* one more language POST; counts above MaxSwitchPosts are not told apart
OneMorePost(n) == IF n < MaxSwitchPosts THEN n + 1 ELSE n

\* The first request of func: session.get / session.post and raise_for_status.
\* gzk get: a first successful response of a gzk.rks-gov.net URL goes on to
\* the language switch.
Request ==
    /\ rpc = "func" /\ fpc = "request"
    /\ \E o \in Outcomes :
          LET e == ExceptionOf(o) IN
          IF e # NoException
          THEN /\ FuncRaises(e)
               /\ lang' = [lang EXCEPT !.gets = Issued(req)]
               /\ UNCHANGED english_switched
          ELSE IF impl = "gzk" /\ req.method = "get"
                  /\ ~english_switched /\ req.gzk_url
               THEN /\ fpc' = "switch"
                    /\ lang' = [lang EXCEPT !.pending = PageLanguage,
                                            !.gets = Issued(req)]
                    /\ UNCHANGED <<rpc, attempt, delay, last_exception, slept,
                                   history, english_switched>>
               ELSE /\ FuncReturns
                    /\ lang' = [lang EXCEPT !.response = PageLanguage,
                                            !.gets = Issued(req)]
                    /\ UNCHANGED english_switched
    /\ UNCHANGED <<impl, max_retries, req>>
    /\ UNCHANGED restOfRetry

\* A get that hands back the response it switched the language on, with no
\* fresh request
SwitchToEnglishNoFresh ==
    /\ rpc = "func" /\ fpc = "switch"
    /\ \E o \in Outcomes :
          /\ english_switched' = TRUE
          /\ lang' = [lang EXCEPT
                        !.server = IF lang.pending # English
                                      /\ ExceptionOf(o) = NoException
                                   THEN English ELSE @,
                        !.switch_posts = IF lang.pending = English THEN @
                                         ELSE OneMorePost(@),
                        !.post = IF lang.pending = English THEN @
                                 ELSE IF ExceptionOf(o) = NoException
                                 THEN "ok" ELSE "failed",
                        !.response = lang.pending]
    /\ FuncReturns
    /\ UNCHANGED <<impl, max_retries, req>>
    /\ UNCHANGED restOfRetry

\* A switch that sets the flag only when the language POST went through
SwitchToEnglishFlagOnSuccess ==
    /\ rpc = "func" /\ fpc = "switch"
    /\ \E o \in Outcomes :
          /\ english_switched' =
                 (lang.pending = English \/ ExceptionOf(o) = NoException)
          /\ fpc' = "fresh"
          /\ lang' = [lang EXCEPT
                        !.server = IF lang.pending # English
                                      /\ ExceptionOf(o) = NoException
                                   THEN English ELSE @,
                        !.switch_posts = IF lang.pending = English THEN @
                                         ELSE OneMorePost(@),
                        !.post = IF lang.pending = English THEN @
                                 ELSE IF ExceptionOf(o) = NoException
                                 THEN "ok" ELSE "failed"]
    /\ UNCHANGED <<impl, max_retries, req, rpc, attempt, delay, last_exception,
                   slept, history>>
    /\ UNCHANGED restOfRetry

\* HttpClient._switch_to_english: the page is already English, or the
\* language POST is sent with the session's cookies; whatever happens the
\* flag is set. A language POST that is answered without an error makes
\* the server keep English for the session.
SwitchToEnglish ==
    /\ rpc = "func" /\ fpc = "switch"
    /\ \E o \in Outcomes :
          /\ english_switched' = TRUE
          /\ fpc' = "fresh"
          /\ lang' = [lang EXCEPT
                        !.server = IF lang.pending # English
                                      /\ ExceptionOf(o) = NoException
                                   THEN English ELSE @,
                        !.switch_posts = IF lang.pending = English THEN @
                                         ELSE OneMorePost(@),
                        !.post = IF lang.pending = English THEN @
                                 ELSE IF ExceptionOf(o) = NoException
                                 THEN "ok" ELSE "failed"]
    /\ UNCHANGED <<impl, max_retries, req, rpc, attempt, delay, last_exception,
                   slept, history>>
    /\ UNCHANGED restOfRetry

\* gzk get: the fresh request after the language switch
FreshRequest ==
    /\ rpc = "func" /\ fpc = "fresh"
    /\ \E o \in Outcomes :
          LET e == ExceptionOf(o) IN
          IF e # NoException
          THEN FuncRaises(e) /\ lang' = [lang EXCEPT !.gets = @ + 1]
          ELSE /\ FuncReturns
               /\ lang' = [lang EXCEPT !.response = PageLanguage,
                                       !.gets = @ + 1]
    /\ UNCHANGED <<impl, max_retries, req, english_switched>>
    /\ UNCHANGED restOfRetry

\* time.sleep(delay), then the loop condition
Sleep ==
    /\ rpc = "sleep"
    /\ \E extra \in 0..MaxOversleep : slept' = slept + delay + extra
    /\ fpc' = "request"
    /\ IF impl = "gzk"
       THEN /\ delay' = delay
            /\ IF GzkInRange(attempt + 1)
               THEN rpc' = "func" /\ attempt' = attempt + 1
               ELSE rpc' = "raised" /\ attempt' = attempt
       ELSE /\ attempt' = attempt
            /\ delay' = EuNextDelay(delay)
            /\ rpc' = IF EuInLoop(attempt) THEN "func" ELSE "raised"
    /\ UNCHANGED <<impl, max_retries, english_switched, req, last_exception,
                   history, lang>>
    /\ UNCHANGED restOfRetry

(***************************************************************************)
(* PaginationWalker: DiscoveryProcessor._fetch_category_links               *)
(***************************************************************************)
WalkActIds == 1..WalkMaxActId

\* A link as _extract_links_from_page builds it; the detail URL is the one
\* that carries ActID=a.
Link(a) == [act_id |-> a, detail_url |-> a]

\* All sequences over S of length at most n
SeqsUpTo(S, n) == UNION { [1..k -> S] : k \in 0..n }

\* The next control of a page, as the walker sees it (the attributes that
\* _is_next_button_disabled reads), with what the page means by it (state).
DisabledIndicators == {"disabled", "aspNetDisabled", "inactive"}

NoControl ==
    [state |-> "absent", disabled |-> FALSE, classes |-> {}, href |-> "",
     parent_classes |-> {}]

Controls ==
    { NoControl,
      [state |-> "enabled", disabled |-> FALSE, classes |-> {},
       href |-> "javascript:__doPostBack", parent_classes |-> {}],
      [state |-> "enabled", disabled |-> FALSE, classes |-> {"pager"},
       href |-> "javascript:__doPostBack", parent_classes |-> {"pager"}],
      [state |-> "disabled", disabled |-> TRUE, classes |-> {},
       href |-> "javascript:__doPostBack", parent_classes |-> {}],
      [state |-> "disabled", disabled |-> FALSE, classes |-> {"aspNetDisabled"},
       href |-> "javascript:__doPostBack", parent_classes |-> {}],
      [state |-> "disabled", disabled |-> FALSE, classes |-> {},
       href |-> "", parent_classes |-> {}],
      [state |-> "disabled", disabled |-> FALSE, classes |-> {"pager"},
       href |-> "javascript:__doPostBack", parent_classes |-> {"inactive"}] }

Pages ==
    { [links |-> l, next |-> c] :
        l \in SeqsUpTo({Link(a) : a \in WalkActIds}, MaxPerPage), c \in Controls }

NoPage == [links |-> <<>>, next |-> NoControl]

\* The n-th response of the walk as parse_html hands it over: the page, with
\* the hidden fields __VIEWSTATE, __VIEWSTATEGENERATOR and __EVENTVALIDATION
\* the server issued with it. The server issues new tokens with every
\* response; tokens n are those of the n-th response.
Served(p, n) == [links |-> p.links, next |-> p.next, tokens |-> n]

\* form data built from the first page whatever the current page is
ExtractFormDataFirstPage(page) ==
    [tokens |-> 1, event_target |-> <<1, "lbNext">>]

\* _extract_form_data(soup, next_button): the hidden fields of the page and
\* __EVENTTARGET, the control id in the href (or the id) of its next button
ExtractFormData(page) ==
    [tokens |-> page.tokens, event_target |-> <<page.tokens, "lbNext">>]

ActIdsOf(links) == { links[i].act_id : i \in DOMAIN links }

\* soup.find("a", id=... endswith("lbNext"))
NextButtonFound(c) == c.state # "absent"

\* _is_next_button_disabled, without the class check
IsNextButtonDisabledNoClass(c) ==
    \/ c.disabled
    \/ c.href = ""
    \/ c.parent_classes \cap DisabledIndicators # {}

\* _is_next_button_disabled: the disabled attribute, a disabled class, no
\* href, or a disabled class on the parent
IsNextButtonDisabled(c) ==
    \/ c.disabled
    \/ c.classes \cap DisabledIndicators # {}
    \/ c.href = ""
    \/ c.parent_classes \cap DisabledIndicators # {}

\* The deduplication of all_links by act_id: the first link of each act_id,
\* in the order of all_links
RECURSIVE DedupLinks(_, _)
DedupLinks(links, unique) ==
    IF links = <<>> THEN unique
    ELSE IF Head(links).act_id \in ActIdsOf(unique)
         THEN DedupLinks(Tail(links), unique)
         ELSE DedupLinks(Tail(links), Append(unique, Head(links)))

\* process_single_item: "skipped" for no links, "processed" otherwise
ItemResult(links) ==
    IF links = <<>>
    THEN [status |-> "skipped", links_found |-> 0]
    ELSE [status |-> "processed", links_found |-> Len(links)]

NoResult == [status |-> "none", links_found |-> 0]

\* The loop without its page ceiling: "while True"
NoCeiling(n) == n >= 0

\* "while page_count < max_pages"
BelowCeiling(n) == n < MaxPages

\* The end of _fetch_category_links (deduplicate, return) and of
\* process_single_item
Finish(links, why) ==
    /\ wpc' = "done"
    /\ stop' = why
    /\ final_links' = DedupLinks(links, <<>>)
    /\ item' = ItemResult(DedupLinks(links, <<>>))

\* a walker that takes the first page for the whole listing
ContinueStopsAtOnce(p, links, pages, empties) == Finish(links, "no_next")

\* After a page was taken in: the break on consecutive empty pages, the loop
\* condition, the next button and its state; otherwise the next POST.
Continue(p, links, pages, empties) ==
    IF empties >= EmptyPageThreshold THEN Finish(links, "empty")
    ELSE IF ~BelowCeiling(pages) THEN Finish(links, "ceiling")
    ELSE IF ~NextButtonFound(p.next) THEN Finish(links, "no_next")
    ELSE IF IsNextButtonDisabled(p.next) THEN Finish(links, "disabled")
    ELSE wpc' = "loop" /\ UNCHANGED <<stop, final_links, item>>

\* client.get(base_url) and the first page, which the server takes from
\* answers
InitialGetOf(answers) ==
    /\ wpc = "init"
    /\ \E p \in answers :
          /\ soup' = Served(p, 1)
          /\ all_links' = p.links
          /\ page_count' = 1
          /\ received' = 1
          /\ served_ids' = ActIdsOf(p.links)
          /\ Continue(p, p.links, 1, consecutive_empty_pages)
    /\ UNCHANGED <<consecutive_empty_pages, failed, posts>>
    /\ UNCHANGED restOfWalk

\* the first page of any listing
InitialGet == InitialGetOf(Pages)

\* client.get or parse_html of the first page raises: _fetch_category_links
\* raises again and process_single_item returns an error
InitialGetFails ==
    /\ wpc = "init"
    /\ wpc' = "raised"
    /\ stop' = "raised"
    /\ item' = [status |-> "error", links_found |-> 0]
    /\ UNCHANGED <<soup, all_links, page_count, consecutive_empty_pages,
                   final_links, received, served_ids, failed, posts>>
    /\ UNCHANGED restOfWalk

\* client.post(base_url, form_data) and the page it returns, which the
\* server takes from answers
NextPageOf(answers) ==
    /\ wpc = "loop"
    /\ \E p \in answers :
          /\ soup' = Served(p, received + 1)
          /\ posts' = Append(posts, ExtractFormData(soup))
          /\ received' = received + 1
          /\ served_ids' = served_ids \cup ActIdsOf(p.links)
          /\ IF p.links = <<>>
             THEN /\ consecutive_empty_pages' = consecutive_empty_pages + 1
                  /\ UNCHANGED <<all_links, page_count>>
             ELSE /\ consecutive_empty_pages' = 0
                  /\ all_links' = all_links \o p.links
                  /\ page_count' = page_count + 1
          /\ Continue(p, all_links', page_count', consecutive_empty_pages')
    /\ UNCHANGED failed
    /\ UNCHANGED restOfWalk

\* a later page of any listing
NextPage == NextPageOf(Pages)

\* The inner except, raising again instead of leaving the loop
NextPageFailsRaising ==
    /\ wpc = "loop"
    /\ failed' = TRUE
    /\ wpc' = "raised"
    /\ stop' = "raised"
    /\ item' = [status |-> "error", links_found |-> 0]
    /\ UNCHANGED <<soup, all_links, page_count, consecutive_empty_pages,
                   final_links, received, served_ids, posts>>
    /\ UNCHANGED restOfWalk

\* _extract_form_data, client.post or parse_html raises: the inner except
\* logs and leaves the loop. The POST was issued unless the form data could
\* not be built.
NextPageFails ==
    /\ wpc = "loop"
    /\ failed' = TRUE
    /\ \E issued \in BOOLEAN :
         posts' = IF issued THEN Append(posts, ExtractFormData(soup)) ELSE posts
    /\ Finish(all_links, "error")
    /\ UNCHANGED <<soup, all_links, page_count, consecutive_empty_pages,
                   received, served_ids>>
    /\ UNCHANGED restOfWalk

WalkAtRest ==
    /\ wpc = "init"
    /\ soup = NoPage
    /\ all_links = <<>>
    /\ page_count = 0
    /\ consecutive_empty_pages = 0
    /\ final_links = <<>>
    /\ item = NoResult
    /\ received = 0
    /\ served_ids = {}
    /\ stop = "none"
    /\ failed = FALSE
    /\ posts = <<>>

NextWalk ==
    \/ InitialGet
    \/ InitialGetFails
    \/ NextPage
    \/ NextPageFails

(***************************************************************************)
(* The UpsertStore.  The database is PostgreSQL at READ COMMITTED: a query  *)
(* of a session sees the committed rows and the rows the session itself has *)
(* flushed; an INSERT of a key another transaction has inserted but not yet *)
(* committed waits for that transaction; an INSERT of a committed key       *)
(* raises IntegrityError.  Sessions are created with autoflush=False        *)
(* (db.py), so objects added but not flushed are invisible to queries.      *)
(* Row locks of UPDATE statements are not modelled: the update of the       *)
(* session that commits last wins.                                          *)
(***************************************************************************)
StoreActIds == 1..StoreMaxActId

\* the workers of the discovery pool that store links, each with the
\* session of its get_session() block
DiscoverySessions == {"d1", "d2"}
RelationSession == "r"
Sessions == DiscoverySessions \cup {RelationSession}

\* NULL in a DateTime column
NoTime == 0
\* no link in hand
NoKey == 0

\* detail_url of a link found on a listing page / built from a relation box
ListUrl == "list"
StubUrl == "rel"

LawRow(i, a, u, t, un) ==
    [id |-> i, act_id |-> a, detail_url |-> u, last_seen_at |-> t,
     unprocessed |-> un]

\* a laws table without the unique index
LawActIdNotUnique == FALSE

\* models.py: act_id = Column(Integer, unique=True, ...)
LawActIdUnique == TRUE

\* rows a session has inserted (flushed) and not yet committed
PendingOf(s) == IF s = RelationSession THEN rs.ins ELSE ds[s].ins
AllPendingLaws == UNION {PendingOf(s) : s \in Sessions}

\* the INSERT of act_id k by session w waits for another transaction
InsertWaits(w, k) ==
    /\ LawActIdUnique
    /\ \E s \in Sessions \ {w} : \E row \in PendingOf(s) : row.act_id = k

\* the INSERT of act_id k violates the unique index
InsertConflicts(k) ==
    /\ LawActIdUnique
    /\ \E row \in laws : row.act_id = k

\* the id the serial primary key hands out next
FreshId(used) == CHOOSE i \in 1..(Cardinality(used) + 1) :
    /\ i \notin used
    /\ \A j \in 1..(i - 1) : j \in used
FreshLawId == FreshId({row.id : row \in laws \cup AllPendingLaws})

\* a committed row with the column changes of a transaction applied
Applied(row, upd) ==
    IF \E c \in upd : c.id = row.id
    THEN LET c == CHOOSE c \in upd : c.id = row.id
         IN  [row EXCEPT !.last_seen_at = c.last_seen_at,
                         !.detail_url = IF c.url_set THEN c.detail_url ELSE @]
    ELSE row

\* what a query of a session with changes upd and flushed inserts ins sees
LawView(upd, ins) == {Applied(row, upd) : row \in laws} \cup ins

\* session.query(Law).filter(Law.act_id == k): the matching rows
QueryLaw(upd, ins, k) == {row \in LawView(upd, ins) : row.act_id = k}

\* .first()
First(rows) == CHOOSE row \in rows : \A o \in rows : row.id <= o.id

\* existing_law.last_seen_at = now; detail_url only if it differs
UpdateExisting(upd, row, now, url) ==
    {c \in upd : c.id # row.id} \cup
    {[id |-> row.id, last_seen_at |-> now, detail_url |-> url,
      url_set |-> (row.detail_url # url)]}

\* session.add(new_law), forgotten
AddLawForgotten(ins, row) == ins

\* session.add(new_law), flushed
AddLaw(ins, row) == ins \cup {row}

\* the state of a discovery session outside _store_link_batch
DiscoveryIdle ==
    [pc |-> "idle", key |-> NoKey, keys |-> {}, now |-> NoTime,
     new |-> 0, updated |-> 0, errors |-> 0, ins |-> {}, upd |-> {},
     conflicted |-> {}, errored |-> {}, outcome |-> "none", links |-> 0]

\* _store_link_batch is entered: now = datetime.utcnow(), batch_stats zeroed
BeginBatch(w) ==
    /\ impl = "gzk"
    /\ ds[w].pc = "idle"
    /\ \E t \in clock..MaxClock :
         /\ clock' = t
         /\ ds' = [ds EXCEPT ![w] = [DiscoveryIdle EXCEPT !.pc = "link",
                                                          !.now = t]]
    /\ UNCHANGED <<laws, relations, eu_laws, rs, es>>
    /\ UNCHANGED restOfStore

\* one link of the batch: begin_nested, the query, and either the update of
\* the row found or the construction of the new Law (new += 1)
StoreKey(w, k) ==
    /\ ds[w].pc = "link"
    /\ LET found == QueryLaw(ds[w].upd, ds[w].ins, k) IN
         IF found # {}
         THEN ds' = [ds EXCEPT ![w].keys = @ \cup {k},
                               ![w].upd = UpdateExisting(@, First(found),
                                                         ds[w].now, ListUrl),
                               ![w].updated = @ + 1]
         ELSE ds' = [ds EXCEPT ![w].pc = "flush",
                               ![w].key = k,
                               ![w].new = @ + 1]
    /\ UNCHANGED <<laws, relations, eu_laws, clock, rs, es>>
    /\ UNCHANGED restOfStore

\* the next link of a batch of at most MaxBatch links with distinct act_ids
StoreLink(w) ==
    /\ Cardinality(ds[w].keys) < MaxBatch
    /\ \E k \in StoreActIds \ ds[w].keys : StoreKey(w, k)

\* a fallback that rolls the whole session back instead of the savepoint
UpdateAfterConflictSessionRollback(w, k) ==
    LET found == QueryLaw({}, {}, k) IN
    ds' = [ds EXCEPT ![w].pc = "link", ![w].key = NoKey,
                     ![w].keys = @ \cup {k},
                     ![w].conflicted = @ \cup {k},
                     ![w].ins = {},
                     ![w].upd = UpdateExisting({}, First(found),
                                               ds[w].now, ListUrl),
                     ![w].updated = @ + 1]

\* the fallback after IntegrityError: savepoint.rollback() returns the
\* session to the savepoint (the inserts and updates of the earlier links
\* stay pending); then query again and update the row that now exists; the
\* query itself may raise
UpdateAfterConflict(w, k) ==
    LET found == QueryLaw(ds[w].upd, ds[w].ins, k) IN
    \E raises \in BOOLEAN :
      IF ~raises /\ found # {}
      THEN ds' = [ds EXCEPT ![w].pc = "link", ![w].key = NoKey,
                            ![w].keys = @ \cup {k},
                            ![w].conflicted = @ \cup {k},
                            ![w].upd = UpdateExisting(@, First(found),
                                                      ds[w].now, ListUrl),
                            ![w].updated = @ + 1]
      ELSE ds' = [ds EXCEPT ![w].pc = "link", ![w].key = NoKey,
                            ![w].keys = @ \cup {k},
                            ![w].conflicted = @ \cup {k},
                            ![w].errored = @ \cup {k},
                            ![w].errors = @ + 1]

\* savepoint.commit(): the INSERT of the new Law is flushed
FlushInsert(w) ==
    /\ ds[w].pc = "flush"
    /\ ~InsertWaits(w, ds[w].key)
    /\ IF InsertConflicts(ds[w].key)
       THEN UpdateAfterConflict(w, ds[w].key)
       ELSE ds' = [ds EXCEPT ![w].pc = "link", ![w].key = NoKey,
                             ![w].keys = @ \cup {ds[w].key},
                             ![w].ins = AddLaw(@, LawRow(FreshLawId,
                                 ds[w].key, ListUrl, ds[w].now, TRUE))]
    /\ UNCHANGED <<laws, relations, eu_laws, clock, rs, es>>
    /\ UNCHANGED restOfStore

\* session.commit() at the end of the batch
CommitBatch(w) ==
    /\ ds[w].pc = "link"
    /\ ds[w].keys # {}
    /\ laws' = {Applied(row, ds[w].upd) : row \in laws} \cup ds[w].ins
    /\ ds' = [ds EXCEPT ![w] = [DiscoveryIdle EXCEPT
                                   !.new = ds[w].new,
                                   !.updated = ds[w].updated,
                                   !.errors = ds[w].errors,
                                   !.links = Cardinality(ds[w].keys),
                                   !.outcome = "committed"]]
    /\ UNCHANGED <<relations, eu_laws, clock, rs, es>>
    /\ UNCHANGED restOfStore

\* session.commit() raises: rollback, the whole batch counted as errors
CommitBatchFails(w) ==
    /\ ds[w].pc = "link"
    /\ ds[w].keys # {}
    /\ ds' = [ds EXCEPT ![w] = [DiscoveryIdle EXCEPT
                                   !.errors = Cardinality(ds[w].keys),
                                   !.links = Cardinality(ds[w].keys),
                                   !.outcome = "rolled_back"]]
    /\ UNCHANGED <<laws, relations, eu_laws, clock, rs, es>>
    /\ UNCHANGED restOfStore

(***************************************************************************)
(* backfill_relations: one session walks the processed laws; for each law   *)
(* it fetches the detail page, handles the relation boxes one by one and    *)
(* commits.                                                                 *)
(***************************************************************************)
\* backfill_relations.py: RELATION_TYPES, abridged, and the fallback
RelationTypes == {"shfuqizon", "related"}
\* the label of a box: a relation type, or no span.span_margin at all
NoLabel == "none"
Labels == RelationTypes \cup {NoLabel}

\* a law_relations table without uq_relation
RelationNotUnique == FALSE

\* models.py: UniqueConstraint("source_id", "target_id", "relation_type")
RelationUnique == TRUE

Triple(row) == <<row.source_id, row.target_id, row.relation_type>>
RelationRow(i, t) ==
    [id |-> i, source_id |-> t[1], target_id |-> t[2], relation_type |-> t[3]]

\* the INSERTs of a flush, in order, into the rows visible to the session
RECURSIVE InsertRelations(_, _)
InsertRelations(rows, pending) ==
    IF pending = <<>> THEN rows
    ELSE InsertRelations(
           rows \cup {RelationRow(FreshId({row.id : row \in rows}),
                                  Head(pending))},
           Tail(pending))

\* a flush of the pending relations violates uq_relation
RelationsConflict(rows, pending) ==
    /\ RelationUnique
    /\ \/ \E i \in 1..Len(pending) : \E row \in rows : Triple(row) = pending[i]
       \/ \E i, j \in 1..Len(pending) : i < j /\ pending[i] = pending[j]

\* the state of the relation session between two laws
RelationIdle ==
    [pc |-> "idle", source |-> NoKey, key |-> NoKey, label |-> NoLabel,
     nboxes |-> 0, count |-> 0, ins |-> {}, rels |-> <<>>, frels |-> {},
     broken |-> FALSE, seen |-> {}, dup |-> FALSE, lost |-> FALSE,
     status |-> "none"]

\* the laws backfill_relations iterates over: filter_by(unprocessed=False),
\* and process_law_relations skips a law without detail_url
SourceLaws == {row \in laws : ~row.unprocessed}

\* process_law_relations fetched and parsed the page of a law
BeginLaw ==
    /\ rs.pc = "idle"
    /\ \E law \in SourceLaws :
         rs' = [RelationIdle EXCEPT !.pc = "box", !.source = law.id]
    /\ UNCHANGED <<laws, relations, eu_laws, clock, ds, es>>
    /\ UNCHANGED restOfStore

\* fetch_html_with_retries returned None, or the markup was rejected
FetchLawFails ==
    /\ rs.pc = "idle"
    /\ SourceLaws # {}
    /\ rs' = [RelationIdle EXCEPT !.status = "error"]
    /\ UNCHANGED <<laws, relations, eu_laws, clock, ds, es>>
    /\ UNCHANGED restOfStore

\* the tail of process_relation_box once target_law is known: the label,
\* the exists-query (committed and flushed rows only) and session.add
AddRelation(s, target, label) ==
    LET t == <<s.source, target.id, label>>
        visible == relations \cup s.frels
    IN  IF label = NoLabel THEN s
        ELSE IF \E row \in visible : Triple(row) = t THEN s
        ELSE [s EXCEPT !.rels = Append(@, t), !.count = @ + 1]

\* the box is done: back to the loop over the boxes
BoxDone(s, k, label) ==
    [s EXCEPT !.pc = "box", !.key = NoKey, !.label = NoLabel,
              !.nboxes = @ + 1,
              !.seen = @ \cup {<<k, label>>},
              !.dup = @ \/ (label # NoLabel /\ <<k, label>> \in s.seen)]

\* one relation box with a link, on a page of at most n boxes: the query
\* for the target law, and the rest of the box when the target exists.
\* In a session whose flush failed every query raises and the box returns
\* None.
RelationBox(n) ==
    /\ rs.pc = "box"
    /\ rs.nboxes < n
    /\ \E k \in StoreActIds, label \in Labels :
         LET found == QueryLaw({}, rs.ins, k) IN
         IF rs.broken
         THEN rs' = BoxDone(rs, k, label)
         ELSE IF found # {}
         THEN rs' = BoxDone(AddRelation(rs, First(found), label), k, label)
         ELSE rs' = [rs EXCEPT !.pc = "stub", !.key = k, !.label = label]
    /\ UNCHANGED <<laws, relations, eu_laws, clock, ds, es>>
    /\ UNCHANGED restOfStore

\* session.add(target_law); session.flush(): the stub and every pending
\* relation are inserted.  On IntegrityError the session is rolled back
\* and the target queried again.
FlushStub ==
    /\ rs.pc = "stub"
    /\ ~InsertWaits(RelationSession, rs.key)
    /\ IF InsertConflicts(rs.key) \/ RelationsConflict(relations \cup rs.frels, rs.rels)
       THEN LET rolled == [rs EXCEPT !.ins = {}, !.rels = <<>>, !.frels = {},
                                     !.lost = @ \/ rs.count > 0]
                found == QueryLaw({}, {}, rs.key)
            IN  IF found # {}
                THEN rs' = BoxDone(AddRelation(rolled, First(found), rs.label),
                                   rs.key, rs.label)
                ELSE rs' = BoxDone(rolled, rs.key, rs.label)
       ELSE LET stub == LawRow(FreshLawId, rs.key, StubUrl, NoTime, TRUE)
                flushed == [rs EXCEPT
                              !.ins = @ \cup {stub},
                              !.frels = InsertRelations(relations \cup rs.frels,
                                                        rs.rels) \ relations,
                              !.rels = <<>>]
            IN  rs' = BoxDone(AddRelation(flushed, stub, rs.label),
                              rs.key, rs.label)
    /\ UNCHANGED <<laws, relations, eu_laws, clock, ds, es>>
    /\ UNCHANGED restOfStore

\* a commit that writes the relations and leaves the stubs of the session
\* behind
CommitLawWithoutStubs ==
    /\ rs.pc = "box"
    /\ IF rs.broken \/ RelationsConflict(relations \cup rs.frels, rs.rels)
       THEN /\ rs' = [RelationIdle EXCEPT !.status = "error"]
            /\ UNCHANGED <<laws, relations>>
       ELSE /\ laws' = laws
            /\ relations' = InsertRelations(relations \cup rs.frels, rs.rels)
            /\ rs' = [RelationIdle EXCEPT !.count = rs.count,
                                          !.status = "processed"]
    /\ UNCHANGED <<eu_laws, clock, ds, es>>
    /\ UNCHANGED restOfStore

\* session.commit() of process_law_relations: the pending relations are
\* flushed and the transaction committed, or the commit raises and the
\* session is rolled back
CommitLaw ==
    /\ rs.pc = "box"
    /\ IF rs.broken \/ RelationsConflict(relations \cup rs.frels, rs.rels)
       THEN /\ rs' = [RelationIdle EXCEPT !.status = "error"]
            /\ UNCHANGED <<laws, relations>>
       ELSE /\ laws' = laws \cup rs.ins
            /\ relations' = InsertRelations(relations \cup rs.frels, rs.rels)
            /\ rs' = [RelationIdle EXCEPT !.count = rs.count,
                                          !.status = "processed"]
    /\ UNCHANGED <<eu_laws, clock, ds, es>>
    /\ UNCHANGED restOfStore

(***************************************************************************)
(* Deadlocks: sessions that wait for each other's uncommitted INSERTs.      *)
(* PostgreSQL aborts the statement of one session of the cycle.             *)
(***************************************************************************)
\* the act_id whose INSERT the session is about to flush
FlushingKey(s) ==
    IF s = RelationSession
    THEN IF rs.pc = "stub" THEN rs.key ELSE NoKey
    ELSE IF ds[s].pc = "flush" THEN ds[s].key ELSE NoKey

WaitsFor(w, s) ==
    /\ LawActIdUnique
    /\ s # w
    /\ FlushingKey(w) # NoKey
    /\ \E row \in PendingOf(s) : row.act_id = FlushingKey(w)

RECURSIVE WaitsThrough(_, _, _)
WaitsThrough(w, s, n) ==
    \/ WaitsFor(w, s)
    \/ /\ n > 1
       /\ \E m \in Sessions : WaitsFor(w, m) /\ WaitsThrough(m, s, n - 1)

Deadlocked(w) == WaitsThrough(w, w, Cardinality(Sessions))

\* the flush of w is aborted.  _store_link_batch: "except Exception" rolls
\* the savepoint back and counts the link as an error.
\* process_relation_box: the error is not an IntegrityError, the box
\* returns None and the session stays unusable until it is rolled back.
DeadlockVictim(w) ==
    /\ Deadlocked(w)
    /\ IF w = RelationSession
       THEN /\ rs' = [BoxDone(rs, rs.key, rs.label) EXCEPT
                        !.ins = {}, !.rels = <<>>, !.frels = {},
                        !.broken = TRUE, !.lost = @ \/ rs.count > 0]
            /\ UNCHANGED ds
       ELSE /\ ds' = [ds EXCEPT ![w].pc = "link", ![w].key = NoKey,
                                ![w].keys = @ \cup {ds[w].key},
                                ![w].errored = @ \cup {ds[w].key},
                                ![w].errors = @ + 1]
            /\ UNCHANGED rs
    /\ UNCHANGED <<laws, relations, eu_laws, clock, es>>
    /\ UNCHANGED restOfStore

(***************************************************************************)
(* EUDiscoveryProcessor._store_links: one session, one call per listing     *)
(* page, a flush after every link and one commit at the end.                *)
(***************************************************************************)
EuLawRow(i, c, t) == [id |-> i, celex_id |-> c, last_seen_at |-> t]

\* celex ids are drawn from the same small set as act_ids
CelexIds == StoreActIds

EuApplied(row, upd) ==
    IF \E c \in upd : c.id = row.id
    THEN [row EXCEPT !.last_seen_at = (CHOOSE c \in upd : c.id = row.id).last_seen_at]
    ELSE row

EuView == {EuApplied(row, es.upd) : row \in eu_laws} \cup es.ins

EuIdle ==
    [pc |-> "idle", nlinks |-> 0, keys |-> {}, new |-> 0, updated |-> 0,
     errors |-> 0, ins |-> {}, upd |-> {}, lost |-> FALSE,
     outcome |-> "none"]

\* _store_links is entered with the links of a page
EuBeginStore ==
    /\ impl = "eu"
    /\ es.pc = "idle"
    /\ es' = [EuIdle EXCEPT !.pc = "link"]
    /\ UNCHANGED <<laws, relations, eu_laws, clock, ds, rs>>
    /\ UNCHANGED restOfStore

\* the session after the body of the try block for a link with celex id c
\* at time t, before session.flush()
EuUpserted(c, t) ==
    LET found == {row \in EuView : row.celex_id = c} IN
    IF found # {}
    THEN LET row == CHOOSE row \in found : TRUE
         IN  [es EXCEPT
                !.upd = {u \in @ : u.id # row.id} \cup
                        {[id |-> row.id, last_seen_at |-> t]},
                !.ins = {IF i.id = row.id THEN [i EXCEPT !.last_seen_at = t]
                         ELSE i : i \in @},
                !.updated = @ + 1]
    ELSE [es EXCEPT
            !.ins = @ \cup {EuLawRow(FreshId({row.id : row \in eu_laws \cup es.ins}),
                                     c, t)},
            !.new = @ + 1]

\* one link: query, update or add, flush
EuStoreLink ==
    /\ es.pc = "link"
    /\ es.nlinks < MaxBatch
    /\ \E c \in CelexIds, t \in clock..MaxClock :
         /\ clock' = t
         /\ es' = [EuUpserted(c, t) EXCEPT !.nlinks = @ + 1,
                                           !.keys = @ \cup {c}]
    /\ UNCHANGED <<laws, relations, eu_laws, ds, rs>>
    /\ UNCHANGED restOfStore

\* one link whose flush raises: session.rollback(), errors += 1
EuStoreLinkFails ==
    /\ es.pc = "link"
    /\ es.nlinks < MaxBatch
    /\ \E c \in CelexIds, t \in clock..MaxClock :
         /\ clock' = t
         /\ es' = [EuUpserted(c, t) EXCEPT !.nlinks = @ + 1,
                                           !.keys = @ \cup {c},
                                           !.lost = @ \/ es.ins # {} \/ es.upd # {},
                                           !.ins = {}, !.upd = {},
                                           !.errors = @ + 1]
    /\ UNCHANGED <<laws, relations, eu_laws, ds, rs>>
    /\ UNCHANGED restOfStore

\* session.commit() at the end of _store_links
EuCommit ==
    /\ es.pc = "link"
    /\ es.nlinks > 0
    /\ eu_laws' = {EuApplied(row, es.upd) : row \in eu_laws} \cup es.ins
    /\ es' = [EuIdle EXCEPT !.new = es.new, !.updated = es.updated,
                            !.errors = es.errors, !.lost = es.lost,
                            !.outcome = "committed"]
    /\ UNCHANGED <<laws, relations, clock, ds, rs>>
    /\ UNCHANGED restOfStore

(***************************************************************************)
(* Specifications of the store.                                             *)
(***************************************************************************)
(***************************************************************************)
(* BasePipelineProcessor.run() of the DiscoveryProcessor with the one       *)
(* category that config.py enables: len(items) = 1, so the items go through *)
(* the single-threaded BatchProcessor.process_batch.                        *)
(***************************************************************************)
NoStats == [processed |-> 0, new |-> 0, updated |-> 0, skipped |-> 0,
            errors |-> 0]

\* BatchProcessor._update_stats
UpdateStats(stats, status) ==
    IF status = "processed" THEN [stats EXCEPT !.processed = @ + 1]
    ELSE IF status = "new" THEN [stats EXCEPT !.new = @ + 1]
    ELSE IF status = "updated" THEN [stats EXCEPT !.updated = @ + 1]
    ELSE IF status = "skipped" THEN [stats EXCEPT !.skipped = @ + 1]
    ELSE [stats EXCEPT !.errors = @ + 1]

\* PipelineStats.add_stats
AddStats(a, b) ==
    [processed |-> a.processed + b.processed, new |-> a.new + b.new,
     updated |-> a.updated + b.updated, skipped |-> a.skipped + b.skipped,
     errors |-> a.errors + b.errors]

RunAtRest == run = [pc |-> "running", stats |-> NoStats]

\* process_single_item has returned for the category: process_batch counts
\* the result and commits, run() adds the batch to self.stats and returns.
\* If the final commit raises, run() counts the batch as errors instead.
RunReturns ==
    /\ run.pc = "running"
    /\ wpc \in {"done", "raised"}
    /\ \E commit_raises \in BOOLEAN :
         run' = [pc |-> "returned",
                 stats |-> IF commit_raises
                           THEN [NoStats EXCEPT !.errors = 1]
                           ELSE AddStats(NoStats, UpdateStats(NoStats, item.status))]
    /\ UNCHANGED restOfRun

(***************************************************************************)
(* The detail processors: DetailProcessor (pipeline/detail/process_laws.py) *)
(* and EUDetailProcessor (eu_pipeline/detail.py); impl tells which one runs.*)
(* With max_workers = 4, a run over two laws puts each law in a chunk of    *)
(* its own and a run over one law goes through the single-threaded          *)
(* BatchProcessor: either way a commit follows every item. The chunks work  *)
(* on different rows and are taken one after the other.                     *)
(***************************************************************************)
DetailIds == 1..MaxDetailLaws

\* law.pdf_text of a law no text was extracted for
NoText == "none"

\* a law as discovery leaves it, with or without a detail_url
\* a metadata column that holds NULL
NoValue == "null"

DetailRow(has_url) ==
    [detail_url |-> has_url, unprocessed |-> TRUE, pdf_text |-> NoText,
     processed_at |-> NoTime, pdf_downloaded |-> FALSE,
     law_number |-> NoValue, law_type |-> NoValue]

\* soup and text_content of _process_text before the first page is read,
\* and after a GET that raised
NoRead ==
    [step |-> "none", marker |-> FALSE,
     text_content |-> [some |-> FALSE, chars |-> 0], taken |-> FALSE]

DetailIdle ==
    [pc |-> "idle", items |-> {}, law |-> 0, obj |-> DetailRow(FALSE),
     requests |-> <<>>, meta_ok |-> FALSE, text_ok |-> FALSE,
     file_type |-> "none", native |-> "none", inspect |-> "none",
     ocr_calls |-> 0, status |-> "none", read |-> NoRead]

\* get_items_to_process: the laws with unprocessed = True. An empty list
\* makes run() return at once.
DetailSelect ==
    /\ dt.pc = "idle"
    /\ LET items == {l \in DetailIds : docs[l].unprocessed} IN
         /\ items # {}
         /\ dt' = [DetailIdle EXCEPT !.pc = "next", !.items = items]
    /\ UNCHANGED docs
    /\ UNCHANGED restOfDetail

\* process_single_item up to the detail_url test: a law without one is
\* skipped, which leaves nothing to commit
DetailBeginItem ==
    /\ dt.pc = "next"
    /\ LET l == CHOOSE x \in dt.items : \A y \in dt.items : x <= y
           rest == dt.items \ {l}
       IN dt' = IF docs[l].detail_url
                THEN [DetailIdle EXCEPT !.pc = "meta", !.items = rest,
                                        !.law = l, !.obj = docs[l]]
                ELSE [DetailIdle EXCEPT !.pc = IF rest = {} THEN "idle" ELSE "next",
                                        !.items = rest, !.status = "skipped"]
    /\ UNCHANGED docs
    /\ UNCHANGED restOfDetail

\* _process_metadata: a GET of the detail page, and in the EU pipeline a GET
\* of the EN/ALL view when the page shows neither form nor date. extracted
\* is what the page gives for the field: DetailProcessor assigns it to
\* law.law_number as it is, None included; EUDetailProcessor assigns
\* law.law_type only "if form_val".
DetailMetadata ==
    /\ dt.pc = "meta"
    /\ \E got \in {"raises", "found", "found_on_all"},
          extracted \in {NoValue, "value"} :
         /\ got = "found_on_all" => impl = "eu"
         /\ got = "raises" => extracted = NoValue
         /\ dt' = [dt EXCEPT !.pc = IF impl = "eu" THEN "txt" ELSE "pdf",
                             !.meta_ok = got # "raises",
                             !.requests = IF got = "found_on_all"
                                          THEN <<"meta", "meta_all">>
                                          ELSE <<"meta">>,
                             !.obj.law_number =
                                 IF impl = "gzk" /\ got # "raises"
                                 THEN extracted ELSE @,
                             !.obj.law_type =
                                 IF impl = "eu" /\ extracted # NoValue
                                 THEN extracted ELSE @]
    /\ UNCHANGED docs
    /\ UNCHANGED restOfDetail

\* what a GET of the primary page or of the alternate view answers: the
\* "HTML format is unavailable" string or none, one of the four content
\* containers or none, and the number of characters of the container's text
HtmlLengths == {0, MinHtmlChars - 1, MinHtmlChars, MinHtmlChars + 1}

EuHtmlPages ==
    { [marker |-> FALSE, container |-> c, chars |-> IF c THEN n ELSE 0] :
         c \in BOOLEAN, n \in HtmlLengths }
      \cup { [marker |-> TRUE, container |-> c,
               chars |-> IF c THEN MinHtmlChars + 1 ELSE 0] : c \in BOOLEAN }

\* what client.get and parse_html give: an exception, or a page
EuHtmlResponses ==
    { got \in [raises : BOOLEAN, page : EuHtmlPages] :
         got.raises =>
            got.page = [marker |-> FALSE, container |-> FALSE, chars |-> 0] }

\* _extract_text_from_soup: None on a page with the marker and on a page
\* without a container, else the container's text, here its length
NoneText == [some |-> FALSE, chars |-> 0]

ExtractTextFromSoup(page) ==
    IF page.marker THEN NoneText
    ELSE IF page.container THEN [some |-> TRUE, chars |-> page.chars]
    ELSE NoneText

\* "if text_content and len(text_content) > 500"
HtmlTextTaken(text_content) ==
    text_content.some /\ text_content.chars > 0 /\ text_content.chars > MinHtmlChars

\* soup and text_content after the page of a step was read: whether the page
\* carried the marker, the text_content that _extract_text_from_soup gave,
\* and whether the text was taken
PageRead(step, page) ==
    [step |-> step, marker |-> page.marker,
     text_content |-> ExtractTextFromSoup(page),
     taken |-> HtmlTextTaken(ExtractTextFromSoup(page))]

\* a text step that goes on to the next step even after it took the text
EuTextStepNoStop(step) ==
    /\ impl = "eu"
    /\ dt.pc = step
    /\ \E got \in EuHtmlResponses :
         LET raises == got.raises
             page == got.page
             ok == ~raises /\ HtmlTextTaken(ExtractTextFromSoup(page))
         IN
         dt' = [dt EXCEPT !.requests = Append(@, step),
                          !.text_ok = ok,
                          !.obj = IF ok THEN [@ EXCEPT !.pdf_text = step] ELSE @,
                          !.read = IF raises THEN NoRead
                                   ELSE PageRead(step, page),
                          !.pc = IF step = "txt" THEN "all" ELSE "page"]
    /\ UNCHANGED docs
    /\ UNCHANGED restOfDetail

\* _process_text, the EN/TXT step (step = "txt") and the EN/ALL step
\* (step = "all"): a GET, and the text of _extract_text_from_soup is taken
\* when it has more than 500 characters. An exception is logged and the next
\* step follows.
EuTextStep(step) ==
    /\ impl = "eu"
    /\ dt.pc = step
    /\ \E got \in EuHtmlResponses :
         LET raises == got.raises
             page == got.page
             ok == ~raises /\ HtmlTextTaken(ExtractTextFromSoup(page))
         IN
         dt' = [dt EXCEPT !.requests = Append(@, step),
                          !.text_ok = ok,
                          !.obj = IF ok THEN [@ EXCEPT !.pdf_text = step] ELSE @,
                          !.read = IF raises THEN NoRead
                                   ELSE PageRead(step, page),
                          !.pc = IF ok THEN "done"
                                 ELSE IF step = "txt" THEN "all" ELSE "page"]
    /\ UNCHANGED docs
    /\ UNCHANGED restOfDetail

\* _process_text, the PDF step: a GET of the detail page for the PDF link, a
\* GET of the PDF, then pdfminer's extract_text. Every failure returns False.
\* soup and text_content are assigned anew: what the two HTML steps read is
\* gone.
EuPdfFallback ==
    /\ impl = "eu"
    /\ dt.pc = "page"
    /\ \E page \in {"raises", "no_link", "link"},
          download \in {"raises", "saved"},
          extracted \in {"text", "blank", "empty", "syntax_error", "raises"} :
         LET downloaded == page = "link" /\ download = "saved"
             ok == downloaded /\ extracted = "text"
         IN dt' = [dt EXCEPT !.requests = IF page = "link"
                                          THEN @ \o <<"page", "pdf">>
                                          ELSE Append(@, "page"),
                             !.text_ok = ok,
                             !.native = IF downloaded THEN extracted ELSE "none",
                             !.read = NoRead,
                             !.obj = [@ EXCEPT !.pdf_downloaded = @ \/ downloaded,
                                               !.pdf_text = IF ok THEN "pdf" ELSE @],
                             !.pc = "done"]
    /\ UNCHANGED docs
    /\ UNCHANGED restOfDetail

\* _extract_text_from_pdf: [ok, ocr_calls]. pdfminer's text is taken when it
\* is not blank. Without it the first page is inspected; for a page with
\* images and no text blocks the call of _extract_text_with_ocr is commented
\* out and the function falls off its end, returning None.
ExtractTextFromPdf(native, inspect) ==
    IF native = "text" THEN [ok |-> TRUE, ocr_calls |-> 0]
    ELSE IF native = "raises" THEN [ok |-> FALSE, ocr_calls |-> 0]
    ELSE IF inspect = "image_based" THEN [ok |-> FALSE, ocr_calls |-> 0]
    ELSE [ok |-> FALSE, ocr_calls |-> 0]

\* _process_pdf: _download_pdf (the file may be on disk already; else a GET
\* of the detail page for the download button and a POST of its form), then
\* _extract_pdf_text by the type of the file
GzkProcessPdf ==
    /\ impl = "gzk"
    /\ dt.pc = "pdf"
    /\ \E download \in {"on_disk", "page_raises", "no_button", "post_raises",
                        "invalid", "saved"},
          file_type \in {"pdf", "word", "html", "unknown"},
          native \in {"text", "empty", "raises"},
          inspect \in {"image_based", "text_blocks", "no_pages", "raises"} :
         LET pdf_path == download \in {"on_disk", "saved"}
             pdf == ExtractTextFromPdf(native, inspect)
             text_success ==
                 /\ pdf_path
                 /\ IF file_type = "pdf" THEN pdf.ok
                    ELSE file_type \in {"word", "html"} /\ native = "text"
             asked == IF download = "on_disk" THEN <<>>
                      ELSE IF download \in {"page_raises", "no_button"}
                      THEN <<"page">>
                      ELSE <<"page", "post">>
         IN dt' = [dt EXCEPT
                     !.requests = @ \o asked,
                     !.text_ok = text_success,
                     !.file_type = IF pdf_path THEN file_type ELSE "none",
                     !.native = IF pdf_path THEN native ELSE "none",
                     !.inspect = IF pdf_path /\ file_type = "pdf" /\ native = "empty"
                                 THEN inspect ELSE "none",
                     !.ocr_calls = IF pdf_path /\ file_type = "pdf"
                                   THEN pdf.ocr_calls ELSE 0,
                     !.obj = IF pdf_path
                             THEN [@ EXCEPT !.pdf_downloaded = TRUE,
                                            !.pdf_text = IF text_success
                                                         THEN file_type ELSE @]
                             ELSE @,
                     !.pc = "done"]
    /\ UNCHANGED docs
    /\ UNCHANGED restOfDetail

\* an end of process_single_item that marks the law whatever the text step
\* returned
DetailItemDoneAlwaysMarked ==
    /\ dt.pc = "done"
    /\ LET marked == [dt.obj EXCEPT !.processed_at = clock, !.unprocessed = FALSE]
       IN \E commit_raises \in BOOLEAN :
            /\ docs' = IF commit_raises THEN docs
                       ELSE [docs EXCEPT ![dt.law] = marked]
            /\ dt' = [DetailIdle EXCEPT
                        !.pc = IF dt.items = {} THEN "idle" ELSE "next",
                        !.items = dt.items,
                        !.status = IF commit_raises THEN "error" ELSE "processed"]
    /\ UNCHANGED restOfDetail

\* the end of process_single_item and the commit that follows it (in the EU
\* processor inside process_single_item, else at the end of the chunk). A
\* commit that raises is answered by session.rollback().
DetailItemDone ==
    /\ dt.pc = "done"
    /\ LET marked == IF dt.text_ok
                     THEN [dt.obj EXCEPT !.processed_at = clock,
                                         !.unprocessed = FALSE]
                     ELSE IF impl = "gzk"
                     THEN [dt.obj EXCEPT !.unprocessed = TRUE]
                     ELSE dt.obj
           status == IF impl = "eu" \/ dt.text_ok THEN "processed" ELSE "partial"
       IN \E commit_raises \in BOOLEAN :
            /\ docs' = IF commit_raises THEN docs
                       ELSE [docs EXCEPT ![dt.law] = marked]
            /\ dt' = [DetailIdle EXCEPT
                        !.pc = IF dt.items = {} THEN "idle" ELSE "next",
                        !.items = dt.items,
                        !.status = IF commit_raises THEN "error" ELSE status]
    /\ UNCHANGED restOfDetail

DetailAtRest ==
    /\ docs = [l \in DetailIds |-> DetailRow(TRUE)]
    /\ dt = DetailIdle

(***************************************************************************)
(* BasePipelineProcessor.run() over the items of get_items_to_process, with *)
(* BatchProcessor or ThreadedBatchProcessor (pipeline/base.py). The items   *)
(* are 1..bt.items and fit one batch (batch_size is 50 or more). What the   *)
(* processor does with an item is an input: it returns status processed     *)
(* after writing to the session, returns status error, or raises after      *)
(* writing; an item handed over as an id may be missing from the store.     *)
(* The processor leaves committing to the batch processor.                  *)
(***************************************************************************)
ItemOutcomes == {"processed", "error", "raises", "missing"}

\* chunk_size = max(1, len(items) // self.max_workers)
ChunkSize(n, workers) == IF n \div workers >= 1 THEN n \div workers ELSE 1

\* [items[i:i + chunk_size] for i in range(0, len(items), chunk_size)]
Chunks(n, size) ==
    [k \in 1..((n + size - 1) \div size) |->
        [j \in 1..(IF k * size <= n THEN size ELSE n - (k - 1) * size) |->
            (k - 1) * size + j]]

\* "session = None" of _process_chunk, and the session of run(). Every
\* call of SessionLocal() makes a new session: NewSession(c) names the one
\* made by the call in the thread of chunk c.
NoSession == 0
MainSession == 1
NewSession(c) == MainSession + c

\* a chunk that was submitted to the executor
ChunkIdle ==
    [pc |-> "queued", i |-> 0, chunk_stats |-> NoStats, pending |-> {},
     failed |-> "none", session |-> NoSession, closed |-> FALSE]

\* run() before its call, for a configuration and a list of items
BatchFields(n, workers, threading, frequency, outcome) ==
    /\ bt = [pc |-> "idle", items |-> n, max_workers |-> workers,
             enable_threading |-> threading, commit_frequency |-> frequency,
             outcome |-> outcome, threaded |-> FALSE, chunk_size |-> 0,
             chunks |-> <<>>, batch_stats |-> NoStats, stats |-> NoStats,
             handed |-> {}, committed |-> {}]
    /\ ch = <<>>

BatchAtRest ==
    BatchFields(0, ConfigMaxWorkers, TRUE, ConfigCommitFrequency, <<>>)

\* run() up to the submission of the chunks: no items, return; more than one
\* item and threading enabled, ThreadedBatchProcessor.process_batch splits
\* the batch; else BatchProcessor.process_batch takes the batch as it is
RunSubmits ==
    /\ bt.pc = "idle"
    /\ LET threaded == bt.enable_threading /\ bt.items > 1
           size == IF threaded THEN ChunkSize(bt.items, bt.max_workers)
                   ELSE bt.items
           chunks == IF bt.items = 0 THEN <<>> ELSE Chunks(bt.items, size)
       IN /\ bt' = [bt EXCEPT !.pc = IF bt.items = 0 THEN "returned" ELSE "running",
                              !.threaded = threaded,
                              !.chunk_size = size,
                              !.chunks = chunks]
          /\ ch' = [k \in 1..Len(chunks) |-> ChunkIdle]
    /\ UNCHANGED restOfBatch

\* an aggregation that keeps the counts of the chunk that finished last
ChunkCollectedOverwrites(finished) == finished.chunk_stats

\* the main thread takes a finished chunk: batch_stats.add_stats(chunk_stats)
\* under as_completed. For BatchProcessor, run() takes the returned
\* batch_stats, or counts len(batch) errors when process_batch raised. Only
\* the main thread touches batch_stats, so the step is taken together with
\* the end of the chunk.
ChunkCollected(finished) ==
    IF ~bt.threaded /\ finished.failed = "commit"
    THEN [NoStats EXCEPT !.errors = bt.items]
    ELSE AddStats(bt.batch_stats, finished.chunk_stats)

\* a session factory that hands out the session of run() to every chunk
ProcessChunkBeginsSameSession(c) ==
    /\ bt.pc = "running"
    /\ c \in DOMAIN ch
    /\ ch[c].pc = "queued"
    /\ Cardinality({k \in DOMAIN ch : ch[k].pc = "running"}) < bt.max_workers
    /\ ch' = [ch EXCEPT ![c].pc = "running", ![c].session = MainSession]
    /\ UNCHANGED bt
    /\ UNCHANGED restOfBatch

\* _process_chunk starts on a thread of the pool: session_factory(), which
\* is db.get_session and returns a new SessionLocal() or raises, and
\* processor_factory(session), which makes a new instance of the processor
\* class on that session or raises; the outer except then counts len(items)
\* errors, and the finally branch closes the session if there is one.
\* BatchProcessor works on the session of run().
ProcessChunkBegins(c) ==
    /\ bt.pc = "running"
    /\ c \in DOMAIN ch
    /\ ch[c].pc = "queued"
    /\ Cardinality({k \in DOMAIN ch : ch[k].pc = "running"}) < bt.max_workers
    /\ \E raised \in {"none", "session_factory", "processor_factory"} :
         LET session_raises == raised # "none"
             session == IF ~bt.threaded THEN MainSession
                        ELSE IF raised = "session_factory" THEN NoSession
                        ELSE NewSession(c)
         IN
         /\ session_raises => bt.threaded
         /\ ch' = [ch EXCEPT ![c] =
                     IF session_raises
                     THEN [@ EXCEPT !.pc = "collected", !.failed = "session",
                                    !.session = session,
                                    !.closed = session # NoSession,
                                    !.chunk_stats.errors = @ + Len(bt.chunks[c])]
                     ELSE [@ EXCEPT !.pc = "running", !.session = session]]
         /\ bt' = IF session_raises
                  THEN [bt EXCEPT !.batch_stats = ChunkCollected(ch'[c])]
                  ELSE bt
    /\ UNCHANGED restOfBatch

\* a processor that stops the chunk at the first item that raises
ProcessChunkItemAborting(c) ==
    /\ bt.pc = "running"
    /\ c \in DOMAIN ch
    /\ ch[c].pc = "running"
    /\ ch[c].i < Len(bt.chunks[c])
    /\ LET this == bt.chunks[c][ch[c].i + 1]
           result == bt.outcome[this]
       IN /\ bt' = [bt EXCEPT !.handed = @ \cup {this}]
          /\ ch' = [ch EXCEPT ![c] =
                      IF result = "raises"
                      THEN [@ EXCEPT !.i = Len(bt.chunks[c]), !.pending = {},
                                     !.chunk_stats.errors = @ + 1]
                      ELSE [@ EXCEPT !.i = @ + 1,
                                     !.chunk_stats = UpdateStats(@, result),
                                     !.pending = @ \cup {this}]]
    /\ UNCHANGED restOfBatch

\* one turn of the item loop of _process_chunk or of
\* BatchProcessor.process_batch: load the item if it is an id, call the
\* processor, count its status, commit every commit_frequency items; any
\* exception, of the processor or of the commit, counts one error and rolls
\* the session back
ProcessChunkItem(c) ==
    /\ bt.pc = "running"
    /\ c \in DOMAIN ch
    /\ ch[c].pc = "running"
    /\ ch[c].i < Len(bt.chunks[c])
    /\ LET this == bt.chunks[c][ch[c].i + 1]
           result == bt.outcome[this]
           written == IF result = "error" THEN ch[c].pending
                      ELSE ch[c].pending \cup {this}
           commits == (ch[c].i + 1) % bt.commit_frequency = 0
       IN IF result = "missing"
          THEN /\ ch' = [ch EXCEPT ![c].i = @ + 1,
                                   ![c].chunk_stats.errors = @ + 1]
               /\ UNCHANGED bt
          ELSE IF result = "raises"
          THEN /\ ch' = [ch EXCEPT ![c].i = @ + 1,
                                   ![c].chunk_stats.errors = @ + 1,
                                   ![c].pending = {}]
               /\ bt' = [bt EXCEPT !.handed = @ \cup {this}]
          ELSE \E commit_raises \in BOOLEAN :
               /\ commit_raises => commits
               /\ ch' = [ch EXCEPT
                           ![c].i = @ + 1,
                           ![c].chunk_stats =
                               IF commit_raises
                               THEN [UpdateStats(@, result) EXCEPT !.errors = @ + 1]
                               ELSE UpdateStats(@, result),
                           ![c].pending = IF commits THEN {} ELSE written,
                           ![c].failed = IF commit_raises THEN "periodic" ELSE @]
               /\ bt' = [bt EXCEPT
                           !.handed = @ \cup {this},
                           !.committed = IF commits /\ ~commit_raises
                                         THEN @ \cup written ELSE @]
    /\ UNCHANGED restOfBatch

\* a final commit whose failure is counted against every chunk that has not
\* finished, as if the chunks shared one session
ProcessChunkEndsSharedSession(c) ==
    /\ bt.pc = "running"
    /\ c \in DOMAIN ch
    /\ ch[c].pc = "running"
    /\ ch[c].i = Len(bt.chunks[c])
    /\ \E commit_raises \in BOOLEAN :
         /\ ch' = [k \in DOMAIN ch |->
                     IF k = c
                     THEN [ch[k] EXCEPT
                             !.pc = "collected",
                             !.pending = {},
                             !.closed = bt.threaded,
                             !.failed = IF commit_raises THEN "commit" ELSE @,
                             !.chunk_stats.errors =
                                 IF commit_raises /\ bt.threaded
                                 THEN @ + Len(bt.chunks[c]) ELSE @]
                     ELSE IF commit_raises /\ ch[k].pc \in {"queued", "running"}
                     THEN [ch[k] EXCEPT !.pending = {},
                                        !.chunk_stats.errors = @ + 1]
                     ELSE ch[k]]
         /\ bt' = [bt EXCEPT !.committed = IF commit_raises THEN @
                                           ELSE @ \cup ch[c].pending,
                             !.batch_stats = ChunkCollected(ch'[c])]
    /\ UNCHANGED restOfBatch

\* the final commit of the chunk. If it raises in _process_chunk, the outer
\* except rolls back and adds len(items) errors to chunk_stats; if it raises
\* in BatchProcessor.process_batch, the exception reaches run().
ProcessChunkEnds(c) ==
    /\ bt.pc = "running"
    /\ c \in DOMAIN ch
    /\ ch[c].pc = "running"
    /\ ch[c].i = Len(bt.chunks[c])
    /\ \E commit_raises \in BOOLEAN :
         /\ ch' = [ch EXCEPT
                     ![c].pc = "collected",
                     ![c].pending = {},
                     ![c].closed = bt.threaded,
                     ![c].failed = IF commit_raises THEN "commit" ELSE @,
                     ![c].chunk_stats.errors =
                         IF commit_raises /\ bt.threaded
                         THEN @ + Len(bt.chunks[c]) ELSE @]
         /\ bt' = [bt EXCEPT !.committed = IF commit_raises THEN @
                                           ELSE @ \cup ch[c].pending,
                             !.batch_stats = ChunkCollected(ch'[c])]
    /\ UNCHANGED restOfBatch

\* every chunk is collected: self.stats.add_stats(batch_stats), and run()
\* logs the totals and returns
RunCompletes ==
    /\ bt.pc = "running"
    /\ \A c \in DOMAIN ch : ch[c].pc = "collected"
    /\ bt' = [bt EXCEPT !.pc = "returned",
                        !.stats = AddStats(@, bt.batch_stats)]
    /\ UNCHANGED ch
    /\ UNCHANGED restOfBatch

(***************************************************************************)
(* A discovery run against a listing of two pages on an empty store: the    *)
(* first page carries two items and an enabled next control, the POST of    *)
(* its form is answered by the second page, which carries the third item    *)
(* and no next control. process_single_item walks the listing, then         *)
(* _store_all_category_links stores the links in one batch (batch_size is   *)
(* 100), then run() returns. The walk or the commit may fail.               *)
(***************************************************************************)
ScenarioActIds == {1, 2, 3}

ScenarioFirstPages ==
    { [links |-> <<Link(a), Link(b)>>, next |-> c] :
        a \in ScenarioActIds, b \in ScenarioActIds,
        c \in {x \in Controls : x.state = "enabled"} }

ScenarioLastPages == { [links |-> <<Link(a)>>, next |-> NoControl] : a \in ScenarioActIds }

\* the listing has three items: no page repeats an item
ScenarioInitialGet ==
    InitialGetOf({p \in ScenarioFirstPages : p.links[1] # p.links[2]})

ScenarioNextPage ==
    NextPageOf({p \in ScenarioLastPages : p.links[1].act_id \notin served_ids})

\* _store_all_category_links calls _store_link_batch with the links
ScenarioBeginBatch ==
    /\ wpc = "done"
    /\ final_links # <<>>
    /\ ds["d1"].outcome = "none"
    /\ BeginBatch("d1")

\* the loop of _store_link_batch takes the links in their order
ScenarioStoreLink ==
    /\ Cardinality(ds["d1"].keys) < Len(final_links)
    /\ StoreKey("d1", final_links[Cardinality(ds["d1"].keys) + 1].act_id)

ScenarioCommitBatch ==
    /\ Cardinality(ds["d1"].keys) = Len(final_links)
    /\ CommitBatch("d1")

ScenarioCommitBatchFails ==
    /\ Cardinality(ds["d1"].keys) = Len(final_links)
    /\ CommitBatchFails("d1")

\* process_single_item returns once the links are stored, or at once when
\* the walk raised
ScenarioRunReturns ==
    /\ wpc = "raised" \/ ds["d1"].outcome # "none"
    /\ RunReturns

(***************************************************************************)
(* EUDiscoveryProcessor.process_single_item: the walk of one EU listing.    *)
(* Each turn of "while True" GETs the listing page with number page; a page *)
(* with result links is stored with _store_links and ends the walk, a page  *)
(* without links ends it unless _has_next_page finds a next-page link.      *)
(***************************************************************************)
\* page numbers from MaxEuPage on are not told apart
Saturated(n) == IF n < MaxEuPage THEN n + 1 ELSE MaxEuPage

\* what a listing page gives the walker: result links or none
\* (_extract_result_links), and a next-page link or none (_has_next_page)
EuListingPages ==
    { [links |-> l, has_next |-> n] : l \in BOOLEAN, n \in BOOLEAN }

NoListingPage == [links |-> FALSE, has_next |-> FALSE]

EuWalkIdle ==
    [pc |-> "get", page |-> 1, requests |-> 0, soup |-> NoListingPage]

\* response = self.client.get(page_url); soup = self.client.parse_html(...):
\* either may raise, which nothing in process_single_item catches
EuGetPage ==
    /\ ew.pc = "get"
    /\ \E raises \in BOOLEAN, p \in EuListingPages :
         ew' = [ew EXCEPT !.requests = Saturated(@),
                          !.pc = IF raises THEN "raised" ELSE "page",
                          !.soup = IF raises THEN @ ELSE p]
    /\ UNCHANGED restOfEuWalk

\* the rest of the turn: the tests of links and of _has_next_page, and
\* page += 1
EuReadPage ==
    /\ ew.pc = "page"
    /\ ew' = [ew EXCEPT
                !.pc = IF ew.soup.links THEN "store"
                       ELSE IF ~ew.soup.has_next THEN "returned"
                       ELSE "get",
                !.page = IF ~ew.soup.links /\ ew.soup.has_next
                         THEN Saturated(@) ELSE @]
    /\ UNCHANGED restOfEuWalk

\* stats = self._store_links(links) is entered
EuWalkBeginStore ==
    /\ ew.pc = "store"
    /\ es.outcome = "none"
    /\ EuBeginStore

\* _store_links returned: "break", and process_single_item returns
EuWalkReturns ==
    /\ ew.pc = "store"
    /\ es.pc = "idle"
    /\ es.outcome = "committed"
    /\ ew' = [ew EXCEPT !.pc = "returned"]
    /\ UNCHANGED restOfEuWalk

EuWalkAtRest == ew = EuWalkIdle

(***************************************************************************)
(* OCRManager: __new__ with its double-checked _instance, __init__, which   *)
(* runs on every call of OCRManager(), and get_reader with its              *)
(* double-checked reader. A thread can be preempted between any two         *)
(* statements; a "with lock" waits while another thread holds that lock.    *)
(***************************************************************************)
Threads == 1..MaxThreads

\* the class attribute _lock, and "no lock"
ClassLock == [kind |-> "cls", id |-> 0]
NoLock == [kind |-> "none", id |-> 0]

\* the n-th Lock() object assigned to self.reader_lock
ReaderLock(n) == [kind |-> "reader", id |-> n]

\* the class before the first OCRManager(): _instance is None. instance is
\* the number of the object in _instance (0: None); has_flag, initialized,
\* reader and reader_lock are the attributes of that object (reader "unset":
\* no such attribute; reader_lock counts the Lock() objects assigned to it);
\* instances, inits, reset and replaced are history.
OcrInitial ==
    [instance |-> 0, has_flag |-> FALSE, initialized |-> FALSE,
     reader |-> "unset", reader_lock |-> 0,
     instances |-> 0, inits |-> 0, reset |-> FALSE, replaced |-> FALSE]

ThreadIdle == [pc |-> "idle", holds |-> NoLock]

Held(l) == \E t \in Threads : th[t].holds = l

\* DetailProcessor.__init__ in a thread: OCRManager() begins with __new__
\* and its unlocked test "if cls._instance is None"
OcrNewTest(t) ==
    /\ th[t].pc = "idle"
    /\ th' = [th EXCEPT ![t].pc = IF ocr.instance = 0 THEN "new_lock"
                                  ELSE "init_test"]
    /\ UNCHANGED ocr
    /\ UNCHANGED restOfOcr

\* "with cls._lock:" and the second test
OcrNewLocked(t) ==
    /\ th[t].pc = "new_lock"
    /\ ~Held(ClassLock)
    /\ th' = [th EXCEPT ![t] = IF ocr.instance = 0
                               THEN [pc |-> "new_make", holds |-> ClassLock]
                               ELSE [pc |-> "init_test", holds |-> NoLock]]
    /\ UNCHANGED ocr
    /\ UNCHANGED restOfOcr

\* cls._instance = super().__new__(cls)
OcrNewMake(t) ==
    /\ th[t].pc = "new_make"
    /\ ocr' = [ocr EXCEPT !.instance = ocr.instances + 1,
                          !.instances = @ + 1,
                          !.has_flag = FALSE, !.initialized = FALSE,
                          !.reader = "unset", !.reader_lock = 0]
    /\ th' = [th EXCEPT ![t].pc = "new_flag"]
    /\ UNCHANGED restOfOcr

\* cls._instance._initialized = False, and the lock is released
OcrNewFlag(t) ==
    /\ th[t].pc = "new_flag"
    /\ ocr' = [ocr EXCEPT !.has_flag = TRUE, !.initialized = FALSE]
    /\ th' = [th EXCEPT ![t] = [pc |-> "init_test", holds |-> NoLock]]
    /\ UNCHANGED restOfOcr

\* __init__: "if not self._initialized", under no lock. The attribute is
\* missing while the thread that made the instance has not set it.
OcrInitTest(t) ==
    /\ th[t].pc = "init_test"
    /\ th' = [th EXCEPT ![t].pc = IF ~ocr.has_flag THEN "raised"
                                  ELSE IF ocr.initialized THEN "get_test"
                                  ELSE "init_reader"]
    /\ UNCHANGED ocr
    /\ UNCHANGED restOfOcr

\* self.reader = None
OcrInitReader(t) ==
    /\ th[t].pc = "init_reader"
    /\ ocr' = [ocr EXCEPT !.reader = "none",
                          !.reset = @ \/ ocr.reader = "reader"]
    /\ th' = [th EXCEPT ![t].pc = "init_lock"]
    /\ UNCHANGED restOfOcr

\* self.reader_lock = Lock()
OcrInitLock(t) ==
    /\ th[t].pc = "init_lock"
    /\ ocr' = [ocr EXCEPT !.reader_lock = @ + 1,
                          !.replaced = @ \/ ocr.reader_lock > 0]
    /\ th' = [th EXCEPT ![t].pc = "init_flag"]
    /\ UNCHANGED restOfOcr

\* self._initialized = True; the thread goes on to get_reader()
OcrInitFlag(t) ==
    /\ th[t].pc = "init_flag"
    /\ ocr' = [ocr EXCEPT !.initialized = TRUE]
    /\ th' = [th EXCEPT ![t].pc = "get_test"]
    /\ UNCHANGED restOfOcr

\* get_reader: "if self.reader is None", under no lock
OcrGetTest(t) ==
    /\ th[t].pc = "get_test"
    /\ th' = [th EXCEPT ![t].pc = IF ocr.reader = "none" THEN "get_lock"
                                  ELSE "got"]
    /\ UNCHANGED ocr
    /\ UNCHANGED restOfOcr

\* "with self.reader_lock:", the lock the attribute holds now, and the
\* second test
OcrGetLocked(t) ==
    /\ th[t].pc = "get_lock"
    /\ ocr.reader_lock > 0
    /\ ~Held(ReaderLock(ocr.reader_lock))
    /\ th' = [th EXCEPT ![t] = IF ocr.reader = "none"
                               THEN [pc |-> "get_init",
                                     holds |-> ReaderLock(ocr.reader_lock)]
                               ELSE [pc |-> "got", holds |-> NoLock]]
    /\ UNCHANGED ocr
    /\ UNCHANGED restOfOcr

\* _initialize_reader: easyocr.Reader(...) is assigned to self.reader, or
\* the outer except leaves self.reader = None; the lock is released and
\* get_reader returns self.reader
OcrInitializeReader(t) ==
    /\ th[t].pc = "get_init"
    /\ \E built \in BOOLEAN :
         ocr' = [ocr EXCEPT !.reader = IF built THEN "reader" ELSE "none",
                            !.inits = IF built THEN @ + 1 ELSE @]
    /\ th' = [th EXCEPT ![t] = [pc |-> "got", holds |-> NoLock]]
    /\ UNCHANGED restOfOcr

OcrAtRest ==
    /\ ocr = OcrInitial
    /\ th = [t \in Threads |-> ThreadIdle]

(***************************************************************************)
(* The functions that read an href or a label.                              *)
(***************************************************************************)
NoArg == [fn |-> "none"]
NoRet == [done |-> FALSE]

\* The text between "ActID=" and the next "&" of an href: white space
\* around it or none, a sign or none, decimal digits (has_digits, with their
\* value) or none, and characters that are no digits or none.
ActIdTexts ==
    { [pad |-> p, sign |-> sg, has_digits |-> d,
       value |-> IF d THEN v ELSE 0, junk |-> j] :
         p \in BOOLEAN, sg \in {"", "-", "+"}, d \in BOOLEAN,
         v \in 0..MaxActIdText, j \in BOOLEAN }

\* an href: it holds "ActID=" or not
Hrefs == { [has_param |-> h, text |-> t] : h \in BOOLEAN, t \in ActIdTexts }

\* str.strip()
Strip(text) == [text EXCEPT !.pad = FALSE]

\* the empty string
IsEmpty(text) ==
    ~text.pad /\ text.sign = "" /\ ~text.has_digits /\ ~text.junk

\* an int, or None
None == [none |-> TRUE, value |-> 0]
Some(n) == [none |-> FALSE, value |-> n]

\* int(text): white space around the number and a sign are accepted; a
\* text without digits or with other characters raises ValueError, here None
ParseInt(text) ==
    IF ~text.has_digits \/ text.junk THEN None
    ELSE Some(IF text.sign = "-" THEN 0 - text.value ELSE text.value)

\* ValidationMixin.validate_act_id for a str
validate_act_id(act_id) ==
    LET clean_id == Strip(act_id) IN
    IF IsEmpty(clean_id) THEN None
    ELSE LET int_id == ParseInt(clean_id) IN
         IF ~int_id.none /\ int_id.value > 0 THEN int_id ELSE None

\* DiscoveryProcessor._extract_act_id_from_url
ExtractActIdFromUrl(url) ==
    IF url.has_param THEN validate_act_id(url.text) ELSE None

\* backfill_relations.extract_act_id
extract_act_id(href) ==
    IF href.has_param THEN ParseInt(href.text) ELSE None

\* "if act_id:" and "if not related_act_id:": None and 0 are false
Truthy(act_id) == ~act_id.none /\ act_id.value # 0

\* _extract_links_from_page for one anchor, and _store_link_batch for the
\* link it gives: Law(act_id=act_id, ...)
ApplyDiscoverLink ==
    /\ arg.fn = "discover_link"
    /\ ~ret.done
    /\ LET act_id == ExtractActIdFromUrl(arg.href) IN
       ret' = [done |-> TRUE,
               rows |-> IF Truthy(act_id) THEN {act_id.value} ELSE {}]
    /\ UNCHANGED arg
    /\ UNCHANGED restOfPure

\* process_relation_box for a box whose target is not in the store yet:
\* Law(act_id=related_act_id, ..., unprocessed=True)
ApplyRelationBox ==
    /\ arg.fn = "relation_box"
    /\ ~ret.done
    /\ LET related_act_id == extract_act_id(arg.href) IN
       ret' = [done |-> TRUE,
               rows |-> IF Truthy(related_act_id) THEN {related_act_id.value}
                        ELSE {}]
    /\ UNCHANGED arg
    /\ UNCHANGED restOfPure

\* A label is a sequence of pieces of words; a term of the vocabulary is in
\* a label when its pieces stand in it one after the other.
Stems == {"shfuqizo", "ndrysho", "plotëso"}
Pieces == Stems \cup {"n", "het", " ", "pjesërisht", "nen"}

RELATION_TYPES ==
    << <<"shfuqizo", "n">>,
       <<"ndrysho", "n">>,
       <<"ndrysho", "het">>,
       <<"plotëso", "n">>,
       <<"plotëso", "het">>,
       <<"ndrysho", "n", " ", "pjesërisht">>,
       <<"shfuqizo", "n", " ", "pjesërisht">> >>

Related == <<"related">>

\* a label: its pieces, written in capitals or not, with white space around
\* it or not
LabelTexts ==
    { [pieces |-> q, upper |-> u, pad |-> p] :
         q \in SeqsUpTo(Pieces, MaxLabelLen), u \in BOOLEAN, p \in BOOLEAN }

\* str.lower()
Lower(label) == [label EXCEPT !.upper = FALSE]

\* "term in text" for a text in small letters; a text in capitals holds no
\* term
Contains(text, term) ==
    /\ ~text.upper
    /\ \E i \in 0..(Len(text.pieces) - Len(term)) :
          SubSeq(text.pieces, i + 1, i + Len(term)) = term

\* the first term of RELATION_TYPES, from position k on, that is in the text
RECURSIVE FirstTermFrom(_, _)
FirstTermFrom(text, k) ==
    IF k > Len(RELATION_TYPES) THEN Related
    ELSE IF Contains(text, RELATION_TYPES[k]) THEN RELATION_TYPES[k]
    ELSE FirstTermFrom(text, k + 1)

\* detect_relation_type
detect_relation_type(label) ==
    IF label.pieces = <<>> /\ ~label.pad THEN Related
    ELSE FirstTermFrom(Strip(Lower(label)), 1)

ApplyDetectRelationType ==
    /\ arg.fn = "detect_relation_type"
    /\ ~ret.done
    /\ ret' = [done |-> TRUE, relation_type |-> detect_relation_type(arg.label)]
    /\ UNCHANGED arg
    /\ UNCHANGED restOfPure

PureInputs ==
    { [fn |-> f, href |-> h] : f \in {"discover_link", "relation_box"},
                               h \in Hrefs }
      \cup { [fn |-> "detect_relation_type", label |-> l] : l \in LabelTexts }

PureAtRest ==
    /\ arg = NoArg
    /\ ret = NoRet

\* a law that discovery stored at time 1 and detail processing completed
SeedLaw(a) == LawRow(1, a, ListUrl, 1, FALSE)

StoreFields(seed, now0) ==
    /\ laws = seed
    /\ relations = {}
    /\ eu_laws = {}
    /\ clock = now0
    /\ ds = [w \in DiscoverySessions |-> DiscoveryIdle]
    /\ rs = RelationIdle
    /\ es = EuIdle

StoreAtRest == StoreFields({}, 1)

\* A new requests.Session has no cookie: the server serves it in its
\* default language sv until a language is selected
LangFields(sv) ==
    lang = [server |-> sv, pending |-> "none", response |-> "none",
            post |-> "none", switch_posts |-> 0, gets |-> 0]

RetryFields(i, n) ==
    /\ impl = i
    /\ max_retries = n
    /\ english_switched = FALSE
    /\ req = [method |-> "get", gzk_url |-> FALSE]
    /\ rpc = "idle"
    /\ fpc = "request"
    /\ attempt = 0
    /\ delay = 0
    /\ last_exception = NoException
    /\ slept = 0
    /\ history = <<>>

\* A client of either pipeline, with any retry budget
RetryAnyConfig ==
    \E i \in {"gzk", "eu"}, n \in 1..MaxRetriesBound, sv \in {Albanian, English} :
        RetryFields(i, n) /\ LangFields(sv)

\* The transport as the other specifications keep it
RetryAtRest == RetryFields("gzk", DefaultMaxRetries) /\ LangFields(Albanian)

NextRetry ==
    \/ HttpCall
    \/ Request
    \/ SwitchToEnglish
    \/ FreshRequest
    \/ Sleep

InitRetry ==
    RetryAnyConfig /\ WalkAtRest /\ StoreAtRest /\ RunAtRest /\ DetailAtRest
    /\ BatchAtRest
    /\ EuWalkAtRest /\ OcrAtRest /\ PureAtRest

SpecRetry == InitRetry /\ [][NextRetry]_vars

InitWalk ==
    WalkAtRest /\ RetryAtRest /\ StoreAtRest /\ RunAtRest /\ DetailAtRest
    /\ BatchAtRest
    /\ EuWalkAtRest /\ OcrAtRest /\ PureAtRest

SpecWalk == InitWalk /\ [][NextWalk]_vars

\* a run of main.py with one discovery worker, or a run of eu_main.py; the
\* processor repeats its calls
InitUpsert ==
    /\ StoreAtRest
    /\ \E i \in {"gzk", "eu"} : RetryFields(i, DefaultMaxRetries)
    /\ LangFields(Albanian)
    /\ WalkAtRest
    /\ RunAtRest
    /\ DetailAtRest
    /\ BatchAtRest
    /\ EuWalkAtRest /\ OcrAtRest /\ PureAtRest

NextUpsert ==
    \/ BeginBatch("d1")
    \/ StoreLink("d1")
    \/ FlushInsert("d1")
    \/ CommitBatch("d1")
    \/ CommitBatchFails("d1")
    \/ EuBeginStore
    \/ EuStoreLink
    \/ EuStoreLinkFails
    \/ EuCommit

SpecUpsert == InitUpsert /\ [][NextUpsert]_vars

\* the discovery workers and the relation backfill, concurrently, on an
\* empty store or on a store that holds one processed law
InitStore ==
    /\ \E seed \in {{}, {SeedLaw(1)}} : StoreFields(seed, MaxClock)
    /\ RetryAtRest
    /\ WalkAtRest
    /\ RunAtRest
    /\ DetailAtRest
    /\ BatchAtRest
    /\ EuWalkAtRest /\ OcrAtRest /\ PureAtRest

NextStore ==
    \/ \E w \in DiscoverySessions : BeginBatch(w)
    \/ \E w \in DiscoverySessions : StoreLink(w)
    \/ \E w \in DiscoverySessions : FlushInsert(w)
    \/ \E w \in DiscoverySessions : CommitBatch(w)
    \/ \E w \in DiscoverySessions : CommitBatchFails(w)
    \/ \E w \in Sessions : DeadlockVictim(w)
    \/ BeginLaw
    \/ FetchLawFails
    \/ RelationBox(MaxRaceBoxes)
    \/ FlushStub
    \/ CommitLaw

SpecStore == InitStore /\ [][NextStore]_vars

\* the relation backfill over a processed law whose act_id no listing
\* carries, beside one discovery worker
InitRelations ==
    /\ StoreFields({SeedLaw(StoreMaxActId + 1)}, MaxClock)
    /\ RetryAtRest
    /\ WalkAtRest
    /\ RunAtRest
    /\ DetailAtRest
    /\ BatchAtRest
    /\ EuWalkAtRest /\ OcrAtRest /\ PureAtRest

NextRelations ==
    \/ BeginBatch("d1")
    \/ StoreLink("d1")
    \/ FlushInsert("d1")
    \/ CommitBatch("d1")
    \/ CommitBatchFails("d1")
    \/ \E w \in Sessions : DeadlockVictim(w)
    \/ BeginLaw
    \/ FetchLawFails
    \/ RelationBox(MaxBoxes)
    \/ FlushStub
    \/ CommitLaw

SpecRelations == InitRelations /\ [][NextRelations]_vars

\* run() of the discovery processor: the walk of the category, then the
\* return of run()
InitRun ==
    WalkAtRest /\ RetryAtRest /\ StoreAtRest /\ RunAtRest /\ DetailAtRest
    /\ BatchAtRest
    /\ EuWalkAtRest /\ OcrAtRest /\ PureAtRest

NextRun ==
    \/ InitialGet
    \/ InitialGetFails
    \/ NextPage
    \/ NextPageFails
    \/ RunReturns

SpecRun == InitRun /\ [][NextRun]_vars

\* detail runs of either pipeline, one after the other, over laws with or
\* without a detail_url
InitDetail ==
    /\ docs \in [DetailIds -> {DetailRow(TRUE), DetailRow(FALSE)}]
    /\ dt = DetailIdle
    /\ \E i \in {"gzk", "eu"} : RetryFields(i, DefaultMaxRetries)
    /\ LangFields(Albanian)
    /\ WalkAtRest
    /\ StoreAtRest
    /\ RunAtRest
    /\ BatchAtRest
    /\ EuWalkAtRest /\ OcrAtRest /\ PureAtRest

NextDetail ==
    \/ DetailSelect
    \/ DetailBeginItem
    \/ DetailMetadata
    \/ EuTextStep("txt")
    \/ EuTextStep("all")
    \/ EuPdfFallback
    \/ GzkProcessPdf
    \/ DetailItemDone

SpecDetail == InitDetail /\ [][NextDetail]_vars

\* run() for any list of at most MaxItems items, with up to MaxWorkers
\* workers, threading enabled or not, and a commit frequency that the items
\* reach or not
InitBatch ==
    /\ \E n \in 0..MaxItems, workers \in 1..MaxWorkers, threading \in BOOLEAN,
          frequency \in (1..MaxCommitFrequency) \cup {ConfigCommitFrequency} :
         \E outcome \in [1..n -> ItemOutcomes] :
           /\ \A i \in 1..n :
                outcome[i] = "missing" => threading /\ n > 1
           /\ BatchFields(n, workers, threading, frequency, outcome)
    /\ RetryAtRest
    /\ WalkAtRest
    /\ StoreAtRest
    /\ RunAtRest
    /\ DetailAtRest
    /\ EuWalkAtRest /\ OcrAtRest /\ PureAtRest

NextBatch ==
    \/ RunSubmits
    \/ \E c \in 1..MaxItems : ProcessChunkBegins(c)
    \/ \E c \in 1..MaxItems : ProcessChunkItem(c)
    \/ \E c \in 1..MaxItems : ProcessChunkEnds(c)
    \/ RunCompletes

SpecBatch == InitBatch /\ [][NextBatch]_vars

\* the discovery run over the two-page listing, on an empty store
InitScenario ==
    /\ WalkAtRest
    /\ RetryAtRest
    /\ StoreAtRest
    /\ RunAtRest
    /\ DetailAtRest
    /\ BatchAtRest
    /\ EuWalkAtRest /\ OcrAtRest /\ PureAtRest

NextScenario ==
    \/ ScenarioInitialGet
    \/ InitialGetFails
    \/ ScenarioNextPage
    \/ NextPageFails
    \/ ScenarioBeginBatch
    \/ ScenarioStoreLink
    \/ FlushInsert("d1")
    \/ ScenarioCommitBatch
    \/ ScenarioCommitBatchFails
    \/ ScenarioRunReturns

SpecScenario == InitScenario /\ [][NextScenario]_vars

\* one call of EUDiscoveryProcessor.process_single_item on a listing
InitEuWalk ==
    /\ EuWalkAtRest
    /\ RetryFields("eu", DefaultMaxRetries)
    /\ LangFields(Albanian)
    /\ WalkAtRest
    /\ StoreAtRest
    /\ RunAtRest
    /\ DetailAtRest
    /\ BatchAtRest
    /\ OcrAtRest
    /\ PureAtRest

NextEuWalk ==
    \/ EuGetPage
    \/ EuReadPage
    \/ EuWalkBeginStore
    \/ EuStoreLink
    \/ EuStoreLinkFails
    \/ EuCommit
    \/ EuWalkReturns

\* one href or one label, and the function that reads it
InitPure ==
    /\ arg \in PureInputs
    /\ ret = NoRet
    /\ RetryAtRest
    /\ WalkAtRest
    /\ StoreAtRest
    /\ RunAtRest
    /\ DetailAtRest
    /\ BatchAtRest
    /\ EuWalkAtRest
    /\ OcrAtRest

NextPure ==
    \/ ApplyDiscoverLink
    \/ ApplyRelationBox
    \/ ApplyDetectRelationType

SpecPure == InitPure /\ [][NextPure]_vars

\* MaxThreads threads that each construct a DetailProcessor, and with it
\* OCRManager(), and then call get_reader()
InitOcr ==
    /\ OcrAtRest
    /\ RetryAtRest
    /\ WalkAtRest
    /\ StoreAtRest
    /\ RunAtRest
    /\ DetailAtRest
    /\ BatchAtRest
    /\ EuWalkAtRest
    /\ PureAtRest

NextOcr ==
    \E t \in Threads :
       \/ OcrNewTest(t)
       \/ OcrNewLocked(t)
       \/ OcrNewMake(t)
       \/ OcrNewFlag(t)
       \/ OcrInitTest(t)
       \/ OcrInitReader(t)
       \/ OcrInitLock(t)
       \/ OcrInitFlag(t)
       \/ OcrGetTest(t)
       \/ OcrGetLocked(t)
       \/ OcrInitializeReader(t)

SpecOcr == InitOcr /\ [][NextOcr]_vars

\* the walk is a sequential program: a step that can be taken is taken
SpecEuWalkLive == InitEuWalk /\ [][NextEuWalk]_vars /\ WF_vars(NextEuWalk)

(***************************************************************************)
(* Claims about the RetryingTransport (SpecRetry)                           *)
(***************************************************************************)
\* The backoff delays of section 4.1, d_k = base * multiplier^k, summed over
\* the n - 1 pauses between n attempts, as closed forms of the geometric sums:
\* gzk (base 1, multiplier 2, far below the cap): 2^(n-1) - 1 seconds;
\* eu (base 1.5, multiplier 1.5): 3 * (1.5^(n-1) - 1) seconds.
SumOfBackoffDelays(n) ==
    IF impl = "gzk"
    THEN Scale * (ExponentialBase ^ (n - 1) - 1)
    ELSE 3 * ((BackoffNum ^ (n - 1)) * (BackoffDen ^ (MaxRetriesBound - (n - 1)))
              - Scale)

EveryAttemptFailed == \A i \in 1..Len(history) : history[i] # NoException

\* C5: when every attempt fails, retry_with_backoff gives up after exactly
\* max_retries attempts (3 for max_retries = 3) by raising the last error,
\* and has slept at least the sum of the backoff delays between the attempts.
C5_RetryBound ==
    (rpc = "raised" /\ EveryAttemptFailed) =>
        /\ Len(history) = max_retries
        /\ (max_retries = DefaultMaxRetries => Len(history) = 3)
        /\ last_exception = history[Len(history)]
        /\ slept >= SumOfBackoffDelays(max_retries)

C5_Witness ==
    /\ rpc = "raised"
    /\ max_retries = DefaultMaxRetries
    /\ Len(history) = 3
    /\ EveryAttemptFailed
    /\ slept > 0

IsClientError(e) == e.type = "HTTPError" /\ e.status >= 400 /\ e.status < 500

\* C6: an attempt that ends in a 4xx HTTP error is the only and last attempt:
\* the call has failed at once, nothing is slept and nothing is retried.
C6_ClientErrorNotRetried ==
    \A i \in 1..Len(history) :
        IsClientError(history[i]) =>
            /\ i = Len(history)
            /\ rpc = "raised"
            /\ (i = 1 => slept = 0)

(***************************************************************************)
(* Claims about the PaginationWalker (SpecWalk)                             *)
(***************************************************************************)
Terminated == wpc \in {"done", "raised"}

NoDuplicateActIds(links) ==
    \A i, j \in DOMAIN links : links[i].act_id = links[j].act_id => i = j

\* C7: once the page just received (page N) shows a disabled next control,
\* the walk has ended there, and what it returned holds exactly the act_ids
\* of the links of pages 1..N, each act_id once.
C7_DisabledNextHalts ==
    (received >= 1 /\ soup.next.state = "disabled") =>
        /\ wpc = "done"
        /\ ActIdsOf(final_links) = served_ids
        /\ NoDuplicateActIds(final_links)

C7_Witness ==
    /\ wpc = "done"
    /\ stop = "disabled"
    /\ soup.next.state = "disabled"
    /\ received >= 2
    /\ Len(final_links) < Len(all_links)

\* The most pages one walk can receive: max_pages pages with links, and
\* EmptyPageThreshold - 1 empty pages before each of them but the first.
WalkRequestBound == MaxPages + (MaxPages - 1) * (EmptyPageThreshold - 1)

\* C8: the walk terminates whatever the server returns. Every step of the
\* walk is one request, the number of requests is bounded and a walk that has
\* not ended can take a step; a request is made only while no stop condition
\* holds, and the walk ends on the condition that holds first.
C8_WalkTerminates ==
    /\ received <= WalkRequestBound
    /\ page_count <= MaxPages
    /\ (~Terminated => ENABLED NextWalk)
    /\ (wpc = "loop" =>
            /\ soup.next.state = "enabled"
            /\ page_count < MaxPages
            /\ consecutive_empty_pages < EmptyPageThreshold)
    /\ (wpc = "done" =>
            /\ stop \in {"empty", "ceiling", "no_next", "disabled", "error"}
            /\ (stop = "empty" => consecutive_empty_pages = EmptyPageThreshold)
            /\ (stop = "ceiling" => page_count = MaxPages)
            /\ (stop = "no_next" => soup.next.state = "absent")
            /\ (stop = "disabled" => soup.next.state = "disabled")
            /\ (stop = "error" => failed))

C8_Witness ==
    /\ wpc = "done"
    /\ stop = "ceiling"
    /\ soup.next.state = "enabled"
    /\ received = WalkRequestBound

\* C9: a failure of a next-page request or parse, after a first page was
\* read, ends the walk without raising: the walk returns the links of all
\* pages read before the failure and the listing is not reported as an error.
C9_NextPageFailureReturnsLinks ==
    failed =>
        /\ wpc = "done"
        /\ received >= 1
        /\ ActIdsOf(final_links) = served_ids
        /\ NoDuplicateActIds(final_links)
        /\ item.status \in {"processed", "skipped"}

C9_Witness ==
    /\ failed
    /\ wpc = "done"
    /\ received >= 2
    /\ final_links # <<>>
    /\ item.status = "processed"

\* C10: what a walk that was cut short by a failed next-page request hands
\* to its caller differs from what a walk that ended normally with the same
\* links hands over (it carries a partial-failure indicator).
C10_PartialFailureIndicator ==
    (wpc = "done" /\ failed) => item # ItemResult(final_links)

(***************************************************************************)
(* Claims about the UpsertStore                                             *)
(***************************************************************************)
LawsOf(k) == {row \in laws : row.act_id = k}
EuLawsOf(c) == {row \in eu_laws : row.celex_id = c}

\* a step in which the _store_link_batch call of w commits
BatchCommits(w) ==
    /\ ds[w].pc = "link"
    /\ ds'[w].pc = "idle"
    /\ ds'[w].outcome = "committed"

\* a step in which the _store_links call commits
EuCommits == es.pc = "link" /\ es'.pc = "idle"

\* C1: repeating the discovery upsert (_store_link_batch, _store_links)
\* with the same key never leaves more than one row for the key, a call
\* that commits without errors leaves exactly one row for each of its
\* keys, and a stored row keeps its identity while its last_seen_at never
\* decreases from one call to the next.
C1_UpsertIdempotent ==
    [][/\ \A k \in StoreActIds : Cardinality({row \in laws' : row.act_id = k}) <= 1
       /\ \A c \in CelexIds : Cardinality({row \in eu_laws' : row.celex_id = c}) <= 1
       /\ \A row \in laws : \E n \in laws' :
            /\ n.id = row.id
            /\ n.act_id = row.act_id
            /\ n.last_seen_at >= row.last_seen_at
       /\ \A row \in eu_laws : \E n \in eu_laws' :
            /\ n.id = row.id
            /\ n.celex_id = row.celex_id
            /\ n.last_seen_at >= row.last_seen_at
       /\ (BatchCommits("d1") /\ ds["d1"].errors = 0) =>
            \A k \in ds["d1"].keys :
              /\ Cardinality({row \in laws' : row.act_id = k}) = 1
              /\ \A row \in laws' : row.act_id = k => row.last_seen_at = ds["d1"].now
       /\ (EuCommits /\ es.errors = 0) =>
            \A c \in es.keys :
              Cardinality({row \in eu_laws' : row.celex_id = c}) = 1
      ]_vars

\* a call has repeated the upsert of stored keys at a later time and
\* committed
C1_Witness ==
    /\ ds["d1"].pc = "idle" /\ ds["d1"].outcome = "committed"
    /\ ds["d1"].updated >= 2 /\ ds["d1"].errors = 0
    /\ \A k \in 1..2 : \E row \in LawsOf(k) : row.last_seen_at > 1

\* C2: whatever the interleaving of the discovery workers and the relation
\* backfill, each with its own session, the committed laws table holds at
\* most one row per act_id.
C2_AtMostOneLawPerActId ==
    \A k \in StoreActIds : Cardinality(LawsOf(k)) <= 1

\* a discovery worker lost the race for an act_id that the backfill
\* committed as a relation stub, and the store holds one row for it
C2_Witness ==
    \E w \in DiscoverySessions : \E k \in ds[w].conflicted :
      /\ Cardinality(LawsOf(k)) = 1
      /\ \A row \in LawsOf(k) : row.detail_url = StubUrl

\* C3: when the INSERT of a new Law hits the unique index because another
\* worker committed the act_id, only the savepoint is rolled back and the
\* link is applied once as an update of the row that now exists; only if
\* that update fails is the link counted as an error; and when the batch
\* commits, every link of the batch that was not counted as an error is in
\* the store with last_seen_at = now.
C3_ConflictBecomesUpdate ==
    [][\A w \in DiscoverySessions :
         /\ (/\ ds[w].pc = "flush"
             /\ InsertConflicts(ds[w].key)
             /\ ds'[w] # ds[w]) =>
              LET k == ds[w].key
                  hit == {c \in ds'[w].upd : \E row \in LawsOf(k) : c.id = row.id}
              IN  /\ ds'[w].pc = "link"
                  /\ k \in ds'[w].keys
                  /\ ds'[w].ins = ds[w].ins
                  /\ \A c \in ds[w].upd : c \in ds'[w].upd
                  /\ IF ds'[w].errors = ds[w].errors
                     THEN /\ Cardinality(hit) = 1
                          /\ \A c \in hit : c.last_seen_at = ds[w].now
                          /\ ds'[w].updated = ds[w].updated + 1
                     ELSE /\ ds'[w].errors = ds[w].errors + 1
                          /\ ds'[w].upd = ds[w].upd
                          /\ ds'[w].updated = ds[w].updated
         /\ BatchCommits(w) =>
              \A k \in ds[w].keys \ ds[w].errored :
                \E row \in laws' : row.act_id = k /\ row.last_seen_at = ds[w].now
      ]_vars

\* a batch in which one link was inserted and another, after losing the
\* race, was applied as an update
C3_Witness ==
    \E w \in DiscoverySessions :
      /\ ds[w].pc = "link"
      /\ ds[w].conflicted # {}
      /\ ds[w].errored = {}
      /\ ds[w].ins # {}
      /\ ds[w].upd # {}

\* C4: the committed law_relations table holds at most one row per
\* (source_id, target_id, relation_type), whatever the pages list and
\* however often the backfill runs.
C4_AtMostOneRelationPerTriple ==
    \A r1, r2 \in relations : Triple(r1) = Triple(r2) => r1 = r2

\* a later run over a page that lists the same relation twice; the store
\* holds the relation once and nothing is pending
C4_Witness ==
    /\ rs.pc = "box"
    /\ rs.dup
    /\ rs.rels = <<>>
    /\ \E b \in rs.seen : \E row \in relations : \E t \in LawsOf(b[1]) :
         Triple(row) = <<rs.source, t.id, b[2]>>

(***************************************************************************)
(* Claims about run() (SpecRun)                                             *)
(***************************************************************************)
\* C11: a failure of the initial GET of a listing aborts the run: run() does
\* not return normally after it, whereas it does after a failure on a later
\* page.
C11_InitialFailureAbortsRun ==
    /\ (stop = "raised") => run.pc # "returned"
    /\ (stop = "error" /\ wpc = "done") => ENABLED RunReturns \/ run.pc = "returned"

(***************************************************************************)
(* Claims about the detail processors (SpecDetail)                          *)
(***************************************************************************)
\* the requests of _process_text, in the order they were issued
TextRequests ==
    SelectSeq(dt.requests, LAMBDA r : r \in {"txt", "all", "page", "pdf"})

\* C12: the EU extractor tries the primary page, then the alternate view,
\* then the document download, strictly in this order; it issues no request
\* of a later step after a step succeeded, and a step that fails or raises
\* is followed by the next step.
C12_FallbackOrder ==
    impl = "eu" =>
      /\ \E n \in 0..4 : TextRequests = SubSeq(<<"txt", "all", "page", "pdf">>, 1, n)
      /\ (dt.text_ok /\ dt.obj.pdf_text = "txt") => TextRequests = <<"txt">>
      /\ (dt.text_ok /\ dt.obj.pdf_text = "all") => TextRequests = <<"txt", "all">>
      /\ dt.pc = "all" => TextRequests = <<"txt">> /\ ~dt.text_ok
      /\ dt.pc = "page" => TextRequests = <<"txt", "all">> /\ ~dt.text_ok
      /\ (dt.pc = "done" /\ ~dt.text_ok) => Len(TextRequests) >= 3

\* the alternate view gave the text after the primary page had failed
C12_Witness ==
    /\ impl = "eu"
    /\ dt.pc = "done"
    /\ dt.text_ok
    /\ dt.obj.pdf_text = "all"
    /\ TextRequests = <<"txt", "all">>

\* C13: the OCR provider is invoked exactly when the downloaded PDF yields no
\* native text and its first page shows images and no text blocks, and never
\* when native extraction succeeded.
C13_OcrWhenImageBased ==
    (impl = "gzk" /\ dt.pc = "done" /\ dt.file_type = "pdf") =>
      /\ dt.ocr_calls = 1 <=> (dt.native = "empty" /\ dt.inspect = "image_based")
      /\ dt.native = "text" => dt.ocr_calls = 0

\* C14: a stored law with unprocessed = false has a non-empty text and a
\* processed_at; a law whose extraction steps all failed keeps
\* unprocessed = true, and the next detail run selects every law that is
\* still unprocessed.
C14_ProcessedHasText ==
    /\ [](\A l \in DetailIds :
            ~docs[l].unprocessed =>
                docs[l].pdf_text # NoText /\ docs[l].processed_at # NoTime)
    /\ [][(dt.pc = "done" /\ ~dt.text_ok) => docs'[dt.law].unprocessed]_vars
    /\ [][(dt.pc = "idle" /\ dt'.pc # "idle") =>
            \A l \in DetailIds : docs[l].unprocessed => l \in dt'.items]_vars

\* one law is processed; the other, whose file was downloaded but gave no
\* text, is still unprocessed and the next run has selected it
C14_Witness ==
    \E l, k \in DetailIds :
      /\ ~docs[l].unprocessed
      /\ docs[l].pdf_text # NoText
      /\ docs[k].unprocessed
      /\ docs[k].pdf_downloaded
      /\ dt.pc = "next"
      /\ dt.items = {k}

(***************************************************************************)
(* Claims about run() and the batch processors (SpecBatch)                  *)
(***************************************************************************)
\* C15: ThreadedBatchProcessor.process_batch splits the items into chunks of
\* size ceil(len(items) / max_workers), for every item count and worker count.
C15_ChunkSizeIsCeiling ==
    (bt.pc # "idle" /\ bt.threaded) =>
      /\ bt.chunk_size = (bt.items + bt.max_workers - 1) \div bt.max_workers
      /\ \A c \in DOMAIN bt.chunks : Len(bt.chunks[c]) <= bt.chunk_size
      /\ \A c \in DOMAIN bt.chunks :
           c < Len(bt.chunks) => Len(bt.chunks[c]) = bt.chunk_size

\* C16: a per-item failure inside a chunk discards only that item's pending
\* changes: the writes of the items processed successfully earlier in the
\* chunk are committed by the time the chunk ends. (Stated for chunks whose
\* commits all succeeded; with a commit frequency above the length of the
\* chunk the only commit is the final one.)
C16_OnlyFailedItemDiscarded ==
    \A c \in DOMAIN ch :
      (/\ ch[c].pc = "collected"
       /\ ch[c].failed = "none"
       /\ bt.commit_frequency > Len(bt.chunks[c])) =>
         \A j \in DOMAIN bt.chunks[c] :
           /\ bt.outcome[bt.chunks[c][j]] = "processed" =>
                bt.chunks[c][j] \in bt.committed
           /\ bt.outcome[bt.chunks[c][j]] = "raises" =>
                bt.chunks[c][j] \notin bt.committed

\* the counts of a chunk in a run where nothing but the items fails
CleanChunkStats(chunk) ==
    [NoStats EXCEPT
       !.processed = Cardinality({j \in DOMAIN chunk :
                                    bt.outcome[chunk[j]] = "processed"}),
       !.errors = Cardinality({j \in DOMAIN chunk :
                                 bt.outcome[chunk[j]] # "processed"})]

\* the sum of chunk_stats over the chunks 1..k
RECURSIVE SumChunkStats(_)
SumChunkStats(k) ==
    IF k = 0 THEN NoStats ELSE AddStats(SumChunkStats(k - 1), ch[k].chunk_stats)

\* C17: a failure of one chunk's backing store changes that chunk's counts
\* only: every chunk whose own session and commits worked contributes the
\* counts it contributes in a run where no chunk fails, and the total of the
\* run is the sum of the chunks' counts.
C17_FailureStaysInItsChunk ==
    bt.threaded =>
      /\ \A c \in DOMAIN ch :
           (ch[c].pc = "collected" /\ ch[c].failed = "none") =>
              ch[c].chunk_stats = CleanChunkStats(bt.chunks[c])
      /\ \A c \in DOMAIN ch :
           ch[c].failed = "none" =>
              /\ ch[c].chunk_stats.errors <= CleanChunkStats(bt.chunks[c]).errors
              /\ ch[c].chunk_stats.processed <= CleanChunkStats(bt.chunks[c]).processed
      /\ bt.pc = "returned" => bt.stats = SumChunkStats(Len(ch))

\* the store of one chunk failed while another chunk, whose items were
\* processed, was running or waiting
C17_Witness ==
    /\ bt.threaded
    /\ \E c, k \in DOMAIN ch :
         /\ ch[c].failed \in {"session", "commit"}
         /\ ch[c].pc = "collected"
         /\ ch[k].failed = "none"
         /\ ch[k].pc = "running"
         /\ bt.outcome[bt.chunks[k][1]] = "processed"

\* C18: a chunk whose execution fails as a whole (its session cannot be
\* created, or its final commit raises) contributes exactly len(chunk) errors
\* and no other counts, and the other chunks still run to completion.
C18_FailedChunkCountsItsLength ==
    bt.threaded =>
      \A c \in DOMAIN ch :
        (ch[c].pc = "collected" /\ ch[c].failed \in {"session", "commit"}) =>
           /\ ch[c].chunk_stats = [NoStats EXCEPT !.errors = Len(bt.chunks[c])]
           /\ \A k \in DOMAIN ch :
                ch[k].pc = "collected" \/ ENABLED ProcessChunkBegins(k)
                  \/ ENABLED ProcessChunkItem(k) \/ ENABLED ProcessChunkEnds(k)
                  \/ \E j \in DOMAIN ch : ch[j].pc = "running"

\* C19: item-level errors never abort a batch: once its session exists, a
\* chunk hands every item it can load to the processor, also after an item
\* raised or returned an error status; run() can always go on until it
\* returns, and its counts then cover every item.
C19_ItemErrorsDoNotAbort ==
    /\ \A c \in DOMAIN ch :
         (ch[c].pc = "collected" /\ ch[c].failed # "session") =>
            \A j \in DOMAIN bt.chunks[c] :
               bt.outcome[bt.chunks[c][j]] # "missing" =>
                  bt.chunks[c][j] \in bt.handed
    /\ bt.pc = "running" => ENABLED NextBatch
    /\ bt.pc = "returned" =>
         bt.stats.processed + bt.stats.new + bt.stats.updated
           + bt.stats.skipped + bt.stats.errors >= bt.items

\* run() has returned; in one chunk the first item raised and the second,
\* which returned an error status, was handed to the processor as well as
\* the third
C19_Witness ==
    /\ bt.pc = "returned"
    /\ \E c \in DOMAIN ch :
         /\ Len(bt.chunks[c]) >= 3
         /\ bt.outcome[bt.chunks[c][1]] = "raises"
         /\ bt.outcome[bt.chunks[c][2]] = "error"
         /\ bt.chunks[c][2] \in bt.handed
         /\ bt.chunks[c][3] \in bt.handed
         /\ bt.stats.errors >= 2

(***************************************************************************)
(* Claims about a whole discovery run (SpecScenario)                        *)
(***************************************************************************)
\* C20: on an empty store, a discovery run over a listing of two pages
\* (page 1: two items and an enabled next control; page 2: one item and no
\* next control) in which nothing fails ends with exactly three Law rows, all
\* new, each with last_seen_at set and unprocessed = true, and with no
\* LawRelation row.
C20_TwoPageListingStored ==
    (/\ run.pc = "returned"
     /\ stop \notin {"raised", "error"}
     /\ ds["d1"].outcome # "rolled_back") =>
       /\ Cardinality(laws) = 3
       /\ {row.act_id : row \in laws} = ScenarioActIds
       /\ \A row \in laws : row.last_seen_at # NoTime /\ row.unprocessed
       /\ ds["d1"].new = 3
       /\ ds["d1"].updated = 0
       /\ ds["d1"].errors = 0
       /\ relations = {}
       /\ run.stats = [NoStats EXCEPT !.processed = 1] \/ run.stats.errors = 1

\* the run returned after both pages were read and the batch was committed
C20_Witness ==
    /\ run.pc = "returned"
    /\ stop = "no_next"
    /\ received = 2
    /\ ds["d1"].outcome = "committed"
    /\ Cardinality(laws) = 3
    /\ run.stats.processed = 1

\* C21: no update of a stored law replaces a non-null field value with null:
\* neither the re-discovery of a law nor the detail processing of a law that
\* is processed again.
C21_NoFieldNulled ==
    [][/\ \A l \in DetailIds :
            /\ docs[l].law_number # NoValue => docs'[l].law_number # NoValue
            /\ docs[l].law_type # NoValue => docs'[l].law_type # NoValue
            /\ docs[l].pdf_text # NoText => docs'[l].pdf_text # NoText]_vars

\* C22: with a server that keeps the selected language per session and a
\* language switch that succeeds, every page HttpClient.get returns for a
\* gzk.rks-gov.net URL is in English, from the client's first get onward and
\* for every later get on the same client.
C22_GzkPagesInEnglish ==
    (/\ impl = "gzk"
     /\ rpc = "returned"
     /\ req.method = "get" /\ req.gzk_url
     /\ lang.post # "failed")
        => lang.response = English

\* a later get on a client whose first get switched the language by a POST
C22_Witness ==
    /\ impl = "gzk"
    /\ rpc = "returned"
    /\ req.method = "get" /\ req.gzk_url
    /\ lang.post = "ok"
    /\ lang.pending = "none"
    /\ lang.response = English

\* processed + new + updated + skipped + errors of a PipelineStats
StatsTotal(stats) ==
    stats.processed + stats.new + stats.updated + stats.skipped + stats.errors

\* C23: after process_batch returns, threaded or single-threaded, processed
\* + new + updated + skipped + errors equals the number of items passed in,
\* whichever items, periodic commits or final commits failed.
C23_EveryItemCountedOnce ==
    (/\ bt.pc = "returned"
     /\ \A c \in DOMAIN ch : bt.threaded \/ ch[c].failed # "commit")
        => StatsTotal(bt.batch_stats) = bt.items

\* C24: for every call of _store_link_batch, new + updated + errors equals
\* the number of links in the batch, each link counted in exactly one of the
\* three, also when its insert hit a uniqueness conflict and was retried as
\* an update.
C24_OneOutcomePerLink ==
    \A w \in DiscoverySessions :
        ds[w].outcome # "none" =>
            ds[w].new + ds[w].updated + ds[w].errors = ds[w].links

\* C25: a uniqueness conflict while creating a stub target or a relation
\* does not discard relations of the same source law added earlier in the
\* pass: when process_law_relations reports the law as processed, every
\* relation counted in relations_count is in the committed store.
C25_CountedRelationsCommitted ==
    [][(rs.pc = "box" /\ rs'.pc = "idle" /\ rs'.status = "processed")
          => rs'.count <= Cardinality(relations' \ relations)]_vars

\* C26: in EUDiscoveryProcessor._store_links an error while storing one link
\* discards only that link: the links of the page stored before it are
\* committed, and new counts only links that are in the store after the
\* commit.
C26_EuErrorDiscardsOneLink ==
    [][EuCommits =>
         es'.new <= Cardinality({row \in eu_laws' :
                                   \A old \in eu_laws : old.id # row.id})]_vars

\* C27: within a chunk the items are processed strictly sequentially in list
\* order, and item i+1 begins only after the writes of item i have been
\* committed or rolled back in the chunk's session.
C27_NextItemAfterCommit ==
    bt.threaded => \A c \in DOMAIN ch :
        /\ \A j \in DOMAIN bt.chunks[c] :
             bt.chunks[c][j] \in bt.handed => j <= ch[c].i
        /\ (ch[c].pc = "running" /\ ch[c].i < Len(bt.chunks[c]))
              => ch[c].pending = {}

\* C28: under any interleaving of the chunk workers no session is used by
\* more than one chunk: each chunk works on a session of its own, which the
\* factory made for it, and that session is closed when the chunk finishes,
\* on success and on failure.
C28_OneSessionPerChunk ==
    bt.threaded =>
      \A c \in DOMAIN ch :
        /\ ch[c].pc = "running" =>
              ch[c].session \notin {NoSession, MainSession} /\ ~ch[c].closed
        /\ \A k \in DOMAIN ch :
              (k # c /\ ch[c].session # NoSession) => ch[k].session # ch[c].session
        /\ (ch[c].pc = "collected" /\ ch[c].session # NoSession) => ch[c].closed

\* two chunks at work at the same time on two sessions, after a chunk whose
\* session was closed when its final commit failed
C28_Witness ==
    /\ bt.threaded
    /\ \E c, k, f \in DOMAIN ch :
         /\ c # k
         /\ ch[c].pc = "running" /\ ch[k].pc = "running"
         /\ ch[c].session # ch[k].session
         /\ ch[f].pc = "collected" /\ ch[f].failed = "commit" /\ ch[f].closed

\* the field-wise sum of chunk_stats over the chunks among 1..k that have
\* finished
RECURSIVE SumFinishedStats(_)
SumFinishedStats(k) ==
    IF k = 0 THEN NoStats
    ELSE IF ch[k].pc = "collected"
    THEN AddStats(SumFinishedStats(k - 1), ch[k].chunk_stats)
    ELSE SumFinishedStats(k - 1)

\* C29: for any order in which the chunks complete, the batch total of
\* ThreadedBatchProcessor.process_batch is the field-wise sum of the
\* statistics of its chunks: no chunk's counts are lost or added twice.
C29_TotalIsSumOfChunks ==
    bt.threaded =>
      /\ bt.batch_stats = SumFinishedStats(Len(ch))
      /\ bt.pc = "returned" =>
            /\ \A c \in DOMAIN ch : ch[c].pc = "collected"
            /\ bt.batch_stats = SumChunkStats(Len(ch))

\* the last chunk completed before the first, and a chunk in between has
\* completed too: the total holds the counts of both
C29_Witness ==
    /\ bt.threaded
    /\ \E c, k \in DOMAIN ch :
         /\ c < k
         /\ ch[1].pc = "running"
         /\ ch[c].pc = "collected" /\ ch[k].pc = "collected"
         /\ ch[c].chunk_stats.processed > 0
         /\ ch[k].chunk_stats.errors > 0
         /\ bt.batch_stats = AddStats(ch[c].chunk_stats, ch[k].chunk_stats)

\* C30: a walk of one listing never fetches more pages than the page-count
\* ceiling (max_pages, MaxPages here), whatever the server returns, empty
\* pages with an enabled next control included.
C30_FetchesBelowCeiling == received <= MaxPages

\* the number of pages without links at the end of the pages received so
\* far: all of them when no page had a link, else those since the last page
\* that had one
EmptyRun ==
    IF received >= 1 /\ all_links = <<>> THEN received
    ELSE consecutive_empty_pages

\* C31: a page without links whose next control is present and enabled does
\* not end the walk: the walker requests the following page, a page with
\* links resets the consecutive-empty counter, and the walk ends for this
\* reason exactly when the third consecutive empty page is received.
C31_ThirdEmptyPageEndsWalk ==
    /\ (/\ received >= 1 /\ ~failed
        /\ soup.links = <<>>
        /\ NextButtonFound(soup.next) /\ ~IsNextButtonDisabled(soup.next)
        /\ EmptyRun < EmptyPageThreshold) => wpc = "loop"
    /\ (received >= 1 /\ soup.links # <<>>) => consecutive_empty_pages = 0
    /\ (wpc = "done" /\ stop = "empty") => EmptyRun = EmptyPageThreshold
    /\ EmptyRun >= EmptyPageThreshold => wpc = "done"

\* C32: every next-page POST of a walk is issued after the previous page was
\* received and parsed, and carries the tokens of that most recent response
\* with an event target naming its next control; no POST carries the tokens
\* of an older page, and the response becomes the current page.
C32_PostCarriesLatestTokens ==
    /\ \A i \in DOMAIN posts :
         /\ i <= received
         /\ posts[i] = [tokens |-> i, event_target |-> <<i, "lbNext">>]
    /\ Len(posts) >= received - 1
    /\ received >= 1 => soup.tokens = received

\* the POST for the third page has been answered: it carried the tokens of
\* the second page, which is no longer the current one
C32_Witness ==
    /\ received = 3
    /\ Len(posts) = 2
    /\ posts[2].tokens = 2
    /\ soup.tokens = 3
    /\ wpc = "loop"

\* C33: EUDiscoveryProcessor.process_single_item terminates for every
\* sequence of listing pages the server can return, pages without result
\* links that still show a next-page link included.
C33_EuListingWalkTerminates == <>(ew.pc \in {"returned", "raised"})

\* C37: under any interleaving of threads that construct OCRManager() and
\* call get_reader() there is a single manager instance and its reader is
\* initialized at most once: no thread resets an initialized reader or
\* replaces the lock that guards it.
C37_OcrReaderInitializedOnce ==
    /\ ocr.instances <= 1
    /\ ocr.inits <= 1
    /\ ~ocr.reset
    /\ ~ocr.replaced

\* C34: when the primary detail page carries the format-unavailable marker
\* the EU extractor goes directly to the document download: the alternate
\* (all formats) view is not requested.
C34_MarkerSkipsAlternateView ==
    [][(impl = "eu" /\ dt.read.step = "txt" /\ dt.read.marker) =>
          \/ dt'.requests = dt.requests
          \/ dt'.requests[Len(dt'.requests)] # "all"]_vars

\* C35: the text of an HTML body, primary or alternate, is taken exactly
\* when it is not empty and has at least 500 characters, and the text parsed
\* from the downloaded document is taken whenever it is not empty.
C35_HtmlTextMinimum ==
    impl = "eu" =>
      /\ dt.read.step # "none" =>
           (dt.read.taken <=>
               /\ dt.read.text_content.some
               /\ dt.read.text_content.chars >= MinHtmlChars)
      /\ (dt.pc = "done" /\ dt.native # "none" /\ Len(TextRequests) = 4) =>
           (dt.text_ok <=> dt.native \in {"text", "blank"})

\* C36: on one HttpClient the language POST is attempted at most once. Once
\* the flag is set, whether the POST went through or failed, an invocation
\* of _get by a later get or by a retry issues no language POST and ends
\* after a single GET.
C36_SwitchPostAtMostOnce ==
    [][/\ lang'.switch_posts <= 1
       /\ (english_switched /\ rpc = "func" /\ fpc = "request") =>
             /\ lang'.switch_posts = lang.switch_posts
             /\ fpc' = "request"
             /\ rpc' # "func" \/ attempt' # attempt
             /\ lang'.gets = Issued(req)]_vars

\* the language POST failed in the first invocation, whose fresh GET failed
\* too; the retry returned after one GET and no further POST
C36_Witness ==
    /\ impl = "gzk"
    /\ req.method = "get" /\ req.gzk_url
    /\ english_switched
    /\ lang.post = "failed"
    /\ lang.switch_posts = 1
    /\ rpc = "returned"
    /\ Len(history) >= 2
    /\ lang.gets = 1

\* C38: every Law row created from a listing link or as the stub of a
\* relation target has a positive act_id; an href whose ActID is zero,
\* negative or not a number gives no row.
C38_RowsHavePositiveActId ==
    (ret.done /\ arg.fn \in {"discover_link", "relation_box"}) =>
        \A a \in ret.rows : a > 0

\* C40: detect_relation_type classifies a label that is a term of
\* RELATION_TYPES as that term, and a label that holds no term as 'related'.
C40_LabelClassifiedAsItsTerm ==
    (ret.done /\ arg.fn = "detect_relation_type") =>
      LET label == arg.label IN
      /\ \A k \in 1..Len(RELATION_TYPES) :
           (label.pieces = RELATION_TYPES[k] /\ ~label.upper /\ ~label.pad) =>
               ret.relation_type = RELATION_TYPES[k]
      /\ (\A k \in 1..Len(RELATION_TYPES) :
             ~Contains(Strip(Lower(label)), RELATION_TYPES[k])) =>
               ret.relation_type = Related

\* C39: a relation that process_relation_box stored for a target that was
\* not in the store has a Law row for its target, created with
\* unprocessed = true, and every committed LawRelation refers with source_id
\* and target_id to committed Law rows.
C39_RelationsReferToLaws ==
    /\ \A row \in rs.ins : row.unprocessed /\ row.act_id \in StoreActIds
    /\ \A i \in 1..Len(rs.rels) :
         \E law \in laws \cup rs.ins : law.id = rs.rels[i][2]
    /\ \A row \in rs.frels :
         \E law \in laws \cup rs.ins : law.id = row.target_id
    /\ \A row \in relations :
         /\ \E law \in laws : law.id = row.source_id
         /\ \E law \in laws : law.id = row.target_id

\* a committed relation whose target is a stub the same commit wrote
C39_Witness ==
    /\ rs.pc = "idle"
    /\ rs.status = "processed"
    /\ \E row \in relations : \E law \in laws :
         /\ law.id = row.target_id
         /\ law.unprocessed
         /\ law.detail_url = StubUrl

====
